---- MODULE Spec2Model ----
(***************************************************************************)
(* eLog: multi-subscriber logging for embedded firmware (eLog.c / eLog.h). *)
(*                                                                         *)
(* The module models the subscriber registry, the dispatch loop and the    *)
(* mutex wrapper of eLog.c in the default build of eLog.h                  *)
(* (ELOG_THREAD_SAFE == 1, ELOG_RTOS_TYPE == ELOG_RTOS_THREADX).           *)
(*                                                                         *)
(*   Spec    one caller at a time: every API call is one atomic action.    *)
(*           A second thread appears only as the possible holder of the    *)
(*           ThreadX mutex, so that an acquisition can time out.           *)
(*   SpecMT  several threads inside the *_safe functions, interleaved at   *)
(*           the granularity of the statements of eLog.c.                  *)
(*   SpecEmit  one caller at a time again, with the per-file threshold     *)
(*           table and the location-tagged messages.                       *)
(***************************************************************************)
EXTENDS Integers, Sequences, FiniteSets, TLC

(***************************************************************************)
(* Bounds of the model.                                                    *)
(***************************************************************************)
\* eLog.h:101-103 makes the table size a build option (#ifndef, default 6);
\* the model is checked for a smaller table.
LOG_MAX_SUBSCRIBERS == 2

\* Number of threads of SpecMT.
NumThreads == 2

\* Size of fileLogLevels[] (16 in eLog.c); the model is checked for a
\* smaller table.
MAX_FILE_LOG_LEVELS == 2

(***************************************************************************)
(* Program constants.                                                      *)
(***************************************************************************)
NULL == 0

LOG_LEVEL_TRACE    == 100
LOG_LEVEL_DEBUG    == 101
LOG_LEVEL_INFO     == 102
LOG_LEVEL_WARNING  == 103
LOG_LEVEL_ERROR    == 104
LOG_LEVEL_CRITICAL == 105
LOG_LEVEL_ALWAYS   == 106

LOG_ERR_NONE                 == 0
LOG_ERR_SUBSCRIBERS_EXCEEDED == 1
LOG_ERR_NOT_SUBSCRIBED       == 2
LOG_ERR_INVALID_LEVEL        == 3

ELOG_THREAD_OK            == 0
ELOG_THREAD_TIMEOUT       == 1
ELOG_THREAD_ERROR         == 2
ELOG_THREAD_NOT_SUPPORTED == 3

\* sizeof(s_message_buffer)
LOG_MAX_MESSAGE_LENGTH == 128

\* sizeof(fileLogLevels[i].filename)
FILENAME_SIZE == 32

\* The seven debug flags of eLog.h; each is YES (TRUE) or NO (FALSE).
Flags == {"DEBUG_TRACE", "DEBUG_LOG", "DEBUG_INFO", "DEBUG_WARN", "DEBUG_ERR",
          "DEBUG_CRITICAL", "DEBUG_ALWAYS"}

\* Every setting of the flags a build can be made with.
Configs == [Flags -> BOOLEAN]

\* eLog.h as distributed: all seven flags are YES.
DefaultConfig == [f \in Flags |-> TRUE]

\* A chain that tests the flags in the order eLog.h defines them.
AutoThresholdFirstInFile(flags) ==
  IF flags["DEBUG_INFO"] THEN LOG_LEVEL_INFO
  ELSE IF flags["DEBUG_WARN"] THEN LOG_LEVEL_WARNING
  ELSE IF flags["DEBUG_ERR"] THEN LOG_LEVEL_ERROR
  ELSE IF flags["DEBUG_LOG"] THEN LOG_LEVEL_DEBUG
  ELSE IF flags["DEBUG_TRACE"] THEN LOG_LEVEL_TRACE
  ELSE IF flags["DEBUG_CRITICAL"] THEN LOG_LEVEL_CRITICAL
  ELSE LOG_LEVEL_ALWAYS

\* The #if / #elif chain of eLog.h that defines LOG_AUTO_THRESHOLD.
AutoThresholdOf(flags) ==
  IF flags["DEBUG_TRACE"] THEN LOG_LEVEL_TRACE
  ELSE IF flags["DEBUG_LOG"] THEN LOG_LEVEL_DEBUG
  ELSE IF flags["DEBUG_INFO"] THEN LOG_LEVEL_INFO
  ELSE IF flags["DEBUG_WARN"] THEN LOG_LEVEL_WARNING
  ELSE IF flags["DEBUG_ERR"] THEN LOG_LEVEL_ERROR
  ELSE IF flags["DEBUG_CRITICAL"] THEN LOG_LEVEL_CRITICAL
  ELSE IF flags["DEBUG_ALWAYS"] THEN LOG_LEVEL_ALWAYS
  ELSE LOG_LEVEL_ALWAYS

\* log_level_t: the seven severities.
Levels == LOG_LEVEL_TRACE .. LOG_LEVEL_ALWAYS

\* Severities of the messages emitted: one below both thresholds in use, and
\* the two thresholds themselves (DEBUG, INFO, ERROR of the README scenario).
MessageLevels == {LOG_LEVEL_DEBUG, LOG_LEVEL_INFO, LOG_LEVEL_ERROR}

\* Thresholds passed to elog_subscribe (the two of the demo programs'
\* custom subscribers).
SubscribeLevels == {LOG_LEVEL_INFO, LOG_LEVEL_ERROR}

\* log_subscriber_t values: three distinct non-null function references, the
\* subscribers of multipleSubscribersExample (elog_console_subscriber,
\* customFileSubscriber, customMemorySubscriber).
Callbacks == {1, 2, 3}

\* Indices of s_subscribers[].
Slots == 0 .. (LOG_MAX_SUBSCRIBERS - 1)

\* Thread identities.  In Spec the first thread makes every call and the
\* second is the one that may own the mutex meanwhile.
Threads == 1 .. NumThreads
Caller == CHOOSE t \in Threads : \A u \in Threads : t <= u
OtherThread == Caller + 1

VARIABLES
  s_subscribers,        \* subscriber_entry_t s_subscribers[LOG_MAX_SUBSCRIBERS]
  s_num_subscribers,    \* int s_num_subscribers
  s_mutex_initialized,  \* int s_mutex_initialized
  RTOS_READY,           \* volatile bool RTOS_READY
  mutex_owner,          \* owner of the ThreadX mutex s_log_mutex, NULL = free
  pre,                  \* the registry as it was when the last call started
  op,                   \* the last API call: name, arguments, results
  invoked,              \* callbacks invoked by the last dispatch, in order
  unsubscribed,         \* callbacks removed by a successful unsubscribe since
                        \* elog_init and not subscribed again since
  fileLogLevels,        \* FileLogLevelEntry fileLogLevels[]: the entries in
                        \* use, fileLogLevelCount of them
  s_message_buffer,     \* char s_message_buffer[LOG_MAX_MESSAGE_LENGTH]: the
                        \* string it holds
  before,               \* fileLogLevels and s_message_buffer as they were
                        \* when the last call started
  settings,             \* the last successful elog_set_file_threshold of
                        \* each name: records [name, level]
  config,               \* the debug flags of eLog.h the build was made with
  pc,                   \* SpecMT: position of each thread
  frame                 \* SpecMT: arguments and locals of each thread

vars == <<s_subscribers, s_num_subscribers, s_mutex_initialized, RTOS_READY,
          mutex_owner, pre, op, invoked, unsubscribed, fileLogLevels,
          s_message_buffer, before, settings, config, pc, frame>>

\* eLog.h: the threshold the preprocessor computes from the build's flags.
LOG_AUTO_THRESHOLD == AutoThresholdOf(config)

(***************************************************************************)
(* The subscriber table.                                                   *)
(***************************************************************************)
\* subscriber_entry_t
Entry(fn, threshold, active) ==
  [fn |-> fn, threshold |-> threshold, active |-> active]

\* Static storage before elog_init runs: zero-initialised.
ZeroTable == [i \in Slots |-> Entry(NULL, 0, 0)]

\* Faulty loop of elog_init: the active flags are not reset.
ClearedKeepingActive ==
  [i \in Slots |-> Entry(NULL, LOG_LEVEL_ALWAYS, s_subscribers[i].active)]

\* The table written by the loop of elog_init.
ClearedTable == [i \in Slots |-> Entry(NULL, LOG_LEVEL_ALWAYS, 0)]

Registry(subs, num) == [subs |-> subs, num |-> num]

\* Faulty scan: the test of the active flag is missing.
RECURSIVE FindAnyEntry(_, _, _, _)
FindAnyEntry(subs, num, fn, i) ==
  IF i >= num THEN -1
  ELSE IF subs[i].fn = fn THEN i
  ELSE FindAnyEntry(subs, num, fn, i + 1)

\* The scan shared by elog_subscribe and elog_unsubscribe:
\*   for (i = 0; i < s_num_subscribers; i++)
\*     if (s_subscribers[i].fn == fn && s_subscribers[i].active) ...
\* Index of the first match from i on, -1 when the loop runs out.
RECURSIVE FindActive(_, _, _, _)
FindActive(subs, num, fn, i) ==
  IF i >= num THEN -1
  ELSE IF subs[i].fn = fn /\ subs[i].active # 0 THEN i
  ELSE FindActive(subs, num, fn, i + 1)

\* Faulty capacity test: off by one (> for >=).
TableFullOffByOne(num) == num > LOG_MAX_SUBSCRIBERS

\* The capacity test at the head of elog_subscribe.
TableFull(num) == num >= LOG_MAX_SUBSCRIBERS

\* Faulty elog_subscribe: no test of the capacity.
SubscribeUnchecked(subs, num, fn, threshold) ==
  LET i == FindActive(subs, num, fn, 0) IN
  IF i >= 0
  THEN [ret  |-> LOG_ERR_NONE,
        subs |-> [subs EXCEPT ![i].threshold = threshold],
        num  |-> num]
  ELSE [ret  |-> LOG_ERR_NONE,
        subs |-> IF num \in Slots
                 THEN [subs EXCEPT ![num] = Entry(fn, threshold, 1)]
                 ELSE subs,
        num  |-> num + 1]

\* Faulty elog_subscribe: a full table hands its first inactive slot to the
\* new callback instead of refusing.
SubscribeReusingInactive(subs, num, fn, threshold) ==
  LET i    == FindActive(subs, num, fn, 0)
      free == {j \in Slots : j < num /\ subs[j].active = 0}
  IN
  IF i >= 0
  THEN [ret  |-> LOG_ERR_NONE,
        subs |-> [subs EXCEPT ![i].threshold = threshold],
        num  |-> num]
  ELSE IF num < LOG_MAX_SUBSCRIBERS
  THEN [ret  |-> LOG_ERR_NONE,
        subs |-> [subs EXCEPT ![num] = Entry(fn, threshold, 1)],
        num  |-> num + 1]
  ELSE IF free # {}
  THEN [ret  |-> LOG_ERR_NONE,
        subs |-> [subs EXCEPT ![CHOOSE j \in free : \A k \in free : j <= k] =
                                 Entry(fn, threshold, 1)],
        num  |-> num]
  ELSE [ret |-> LOG_ERR_SUBSCRIBERS_EXCEEDED, subs |-> subs, num |-> num]

\* Faulty elog_subscribe: a callback that was unsubscribed gets its old
\* entry back, activated again, instead of a new entry at the end.
SubscribeReactivating(subs, num, fn, threshold) ==
  LET i   == FindActive(subs, num, fn, 0)
      old == {j \in Slots : j < num /\ subs[j].fn = fn /\ subs[j].active = 0}
  IN
  IF TableFull(num)
  THEN [ret |-> LOG_ERR_SUBSCRIBERS_EXCEEDED, subs |-> subs, num |-> num]
  ELSE IF i >= 0
  THEN [ret  |-> LOG_ERR_NONE,
        subs |-> [subs EXCEPT ![i].threshold = threshold],
        num  |-> num]
  ELSE IF old # {}
  THEN [ret  |-> LOG_ERR_NONE,
        subs |-> [subs EXCEPT ![CHOOSE j \in old : \A k \in old : j <= k] =
                                 Entry(fn, threshold, 1)],
        num  |-> num]
  ELSE [ret  |-> LOG_ERR_NONE,
        subs |-> [subs EXCEPT ![num] = Entry(fn, threshold, 1)],
        num  |-> num + 1]

\* elog_subscribe: result code and registry after the call.
SubscribeResult(subs, num, fn, threshold) ==
  IF TableFull(num)
  THEN [ret |-> LOG_ERR_SUBSCRIBERS_EXCEEDED, subs |-> subs, num |-> num]
  ELSE LET i == FindActive(subs, num, fn, 0) IN
       IF i >= 0
       THEN [ret  |-> LOG_ERR_NONE,
             subs |-> [subs EXCEPT ![i].threshold = threshold],
             num  |-> num]
       ELSE [ret  |-> LOG_ERR_NONE,
             subs |-> [subs EXCEPT ![num] = Entry(fn, threshold, 1)],
             num  |-> num + 1]

\* Faulty elog_unsubscribe: the match is reported but the entry stays active
\* ("active == 0" written for "active = 0").
UnsubscribeKeepsActive(subs, num, fn) ==
  LET i == FindActive(subs, num, fn, 0) IN
  IF i >= 0
  THEN [ret |-> LOG_ERR_NONE, subs |-> subs, num |-> num]
  ELSE [ret |-> LOG_ERR_NOT_SUBSCRIBED, subs |-> subs, num |-> num]

\* elog_unsubscribe: result code and registry after the call.
UnsubscribeResult(subs, num, fn) ==
  LET i == FindActive(subs, num, fn, 0) IN
  IF i >= 0
  THEN [ret  |-> LOG_ERR_NONE,
        subs |-> [subs EXCEPT ![i].active = 0],
        num  |-> num]
  ELSE [ret |-> LOG_ERR_NOT_SUBSCRIBED, subs |-> subs, num |-> num]

\* Faulty critical section of elog_subscribe_safe: the scan for an existing
\* subscription is missing, every call appends.
SubscribeSafeAlwaysAppends(subs, num, fn, threshold) ==
  IF num < LOG_MAX_SUBSCRIBERS
  THEN [ret  |-> LOG_ERR_NONE,
        subs |-> [subs EXCEPT ![num] = Entry(fn, threshold, 1)],
        num  |-> num + 1]
  ELSE [ret |-> LOG_ERR_SUBSCRIBERS_EXCEEDED, subs |-> subs, num |-> num]

\* Faulty critical section of elog_subscribe_safe: the scan for an existing
\* subscription is made before the capacity test.
SubscribeSafeScansFirst(subs, num, fn, threshold) ==
  LET i == FindActive(subs, num, fn, 0) IN
  IF i >= 0
  THEN [ret  |-> LOG_ERR_NONE,
        subs |-> [subs EXCEPT ![i].threshold = threshold],
        num  |-> num]
  ELSE IF num < LOG_MAX_SUBSCRIBERS
  THEN [ret  |-> LOG_ERR_NONE,
        subs |-> [subs EXCEPT ![num] = Entry(fn, threshold, 1)],
        num  |-> num + 1]
  ELSE [ret |-> LOG_ERR_SUBSCRIBERS_EXCEEDED, subs |-> subs, num |-> num]

\* The critical section of elog_subscribe_safe (eLog.c repeats the code of
\* elog_subscribe instead of calling it):
\*   result = LOG_ERR_SUBSCRIBERS_EXCEEDED;
\*   if (s_num_subscribers < LOG_MAX_SUBSCRIBERS) { scan; append } exit:
SubscribeSafeBody(subs, num, fn, threshold) ==
  IF num < LOG_MAX_SUBSCRIBERS
  THEN LET i == FindActive(subs, num, fn, 0) IN
       IF i >= 0
       THEN [ret  |-> LOG_ERR_NONE,
             subs |-> [subs EXCEPT ![i].threshold = threshold],
             num  |-> num]
       ELSE [ret  |-> LOG_ERR_NONE,
             subs |-> [subs EXCEPT ![num] = Entry(fn, threshold, 1)],
             num  |-> num + 1]
  ELSE [ret |-> LOG_ERR_SUBSCRIBERS_EXCEEDED, subs |-> subs, num |-> num]

\* Faulty timeout path of elog_subscribe_safe: the failure to lock is
\* reported as success.
SubscribeTimedOutSilently(subs, num) ==
  [ret |-> LOG_ERR_NONE, subs |-> subs, num |-> num]

\* elog_subscribe_safe when elogMutexTake fails:
\*   return LOG_ERR_SUBSCRIBERS_EXCEEDED;
SubscribeTimedOut(subs, num) ==
  [ret |-> LOG_ERR_SUBSCRIBERS_EXCEEDED, subs |-> subs, num |-> num]

\* elog_unsubscribe_safe when elogMutexTake fails:
\*   return LOG_ERR_NOT_SUBSCRIBED;
UnsubscribeTimedOut(subs, num) ==
  [ret |-> LOG_ERR_NOT_SUBSCRIBED, subs |-> subs, num |-> num]

\* The critical section of elog_unsubscribe_safe:
\*   result = LOG_ERR_NOT_SUBSCRIBED; for (...) if (match) { active = 0;
\*   result = LOG_ERR_NONE; break; }
UnsubscribeSafeBody(subs, num, fn) ==
  LET i == FindActive(subs, num, fn, 0) IN
  IF i >= 0
  THEN [ret  |-> LOG_ERR_NONE,
        subs |-> [subs EXCEPT ![i].active = 0],
        num  |-> num]
  ELSE [ret |-> LOG_ERR_NOT_SUBSCRIBED, subs |-> subs, num |-> num]

(***************************************************************************)
(* Dispatch.                                                               *)
(***************************************************************************)
\* Faulty filter: the active flag is not tested.
EligibleIgnoringActive(e, level) == level >= e.threshold

\* if (s_subscribers[i].active && level >= s_subscribers[i].threshold)
Eligible(e, level) == e.active # 0 /\ level >= e.threshold

\* One invocation s_subscribers[i].fn(level, s_message_buffer).
Invocation(subs, i, level) == [idx |-> i, fn |-> subs[i].fn, level |-> level]

\* Faulty loop: the table is walked from its last entry to its first.
RECURSIVE DispatchFromBackwards(_, _, _, _)
DispatchFromBackwards(subs, num, level, i) ==
  IF i >= num THEN <<>>
  ELSE DispatchFromBackwards(subs, num, level, i + 1)
       \o (IF Eligible(subs[i], level)
           THEN <<Invocation(subs, i, level)>> ELSE <<>>)

\* for (i = 0; i < s_num_subscribers; i++) ... : the invocations made from
\* index i on, in the order in which they are made.
RECURSIVE DispatchFrom(_, _, _, _)
DispatchFrom(subs, num, level, i) ==
  IF i >= num THEN <<>>
  ELSE (IF Eligible(subs[i], level)
        THEN <<Invocation(subs, i, level)>> ELSE <<>>)
       \o DispatchFrom(subs, num, level, i + 1)

Dispatch(subs, num, level) == DispatchFrom(subs, num, level, 0)

(***************************************************************************)
(* The mutex wrapper over the ThreadX primitive.                           *)
(***************************************************************************)
\* tx_mutex_get with a finite wait: the mutex is obtained when it is free
\* (or already owned by the caller); otherwise the wait expires.
TxMutexGet(owner, t) ==
  IF owner = NULL \/ owner = t
  THEN [ok |-> TRUE, owner |-> t]
  ELSE [ok |-> FALSE, owner |-> owner]

\* tx_mutex_put: only the owner releases.
\* A put that releases the mutex whoever calls it.
TxMutexPutByAnyone(owner, t) == [ok |-> TRUE, owner |-> NULL]

TxMutexPut(owner, t) ==
  IF owner = t
  THEN [ok |-> TRUE, owner |-> NULL]
  ELSE [ok |-> FALSE, owner |-> owner]

\* elogMutexTake(&s_log_mutex, ELOG_MUTEX_TIMEOUT_MS) by thread t.
\* A take that goes to the primitive whatever RTOS_READY says.
MutexTakeLocking(owner, ready, t) ==
  LET g == TxMutexGet(owner, t) IN
  [res   |-> IF g.ok THEN ELOG_THREAD_OK ELSE ELOG_THREAD_TIMEOUT,
   owner |-> g.owner]

MutexTake(owner, ready, t) ==
  IF ~ready
  THEN [res |-> ELOG_THREAD_OK, owner |-> owner]
  ELSE LET g == TxMutexGet(owner, t) IN
       [res   |-> IF g.ok THEN ELOG_THREAD_OK ELSE ELOG_THREAD_TIMEOUT,
        owner |-> g.owner]

\* elogMutexGive(&s_log_mutex) by thread t.
MutexGive(owner, ready, t) ==
  IF ~ready
  THEN [res |-> ELOG_THREAD_OK, owner |-> owner]
  ELSE LET p == TxMutexPut(owner, t) IN
       [res   |-> IF p.ok THEN ELOG_THREAD_OK ELSE ELOG_THREAD_ERROR,
        owner |-> p.owner]

(***************************************************************************)
(* Strings and message formatting.  A C string is the sequence of its      *)
(* characters before the terminator, each a one-letter string.             *)
(***************************************************************************)
\* The null pointer of type const char *: no string holds an element of
\* more than one letter.
NullString == <<"NULL">>

\* The first n characters of s, all of s when it is shorter.
Prefix(s, n) == SubSeq(s, 1, IF Len(s) < n THEN Len(s) ELSE n)

\* A vsnprintf that fills all size bytes with characters of the text.
vsnprintfUnterminated(size, text) == Prefix(text, size)

\* vsnprintf(buf, size, ...) and snprintf(buf, size, ...): the string left in
\* buf when text is the complete rendering: size - 1 characters at most.
vsnprintf(size, text) == Prefix(text, size - 1)

snprintf(size, text) == Prefix(text, size - 1)

\* strncpy(dst, src, n); dst[n] = '\0';
strncpy(src, n) == Prefix(src, n)

Digit(d) == <<"0", "1", "2", "3", "4", "5", "6", "7", "8", "9">>[d + 1]

\* The conversion %d of a non-negative int.
RECURSIVE Decimal(_)
Decimal(n) ==
  IF n < 10 THEN <<Digit(n)>> ELSE Decimal(n \div 10) \o <<Digit(n % 10)>>

\* The rendering of "[%s][%s][%d] %s".
LocationText(file, func, line, text) ==
  <<"[">> \o file \o <<"]", "[">> \o func \o <<"]", "[">> \o Decimal(line)
    \o <<"]", " ">> \o text

\* s_message_buffer after the formatting of elog_message.
FormatMessage(text) == vsnprintf(LOG_MAX_MESSAGE_LENGTH, text)

\* A formatting that passes the user message on without temp_buffer.
FormatLocationUntrimmed(file, func, line, text) ==
  snprintf(LOG_MAX_MESSAGE_LENGTH, LocationText(file, func, line, text))

\* s_message_buffer after the formatting of elog_message_with_location:
\* the user message goes through temp_buffer[LOG_MAX_MESSAGE_LENGTH - 64].
FormatLocation(file, func, line, text) ==
  snprintf(LOG_MAX_MESSAGE_LENGTH,
           LocationText(file, func, line,
                        vsnprintf(LOG_MAX_MESSAGE_LENGTH - 64, text)))

\* debug_get_filename: the part of fullpath after its last '/' or '\'.
\* The loop over p leaves in ret the position after the last separator it
\* met; LastSeparator is the position of that separator, 0 when the path
\* has none.
LastSeparator(fullpath) ==
  LET met == {p \in DOMAIN fullpath : fullpath[p] \in {"/", "\\"}} IN
  IF met = {} THEN 0 ELSE CHOOSE p \in met : \A q \in met : q <= p

debug_get_filename(fullpath) ==
  SubSeq(fullpath, LastSeparator(fullpath) + 1, Len(fullpath))

\* A naming that takes every value above LOG_LEVEL_ALWAYS for ALWAYS.
LevelNameClamped(level) ==
  CASE level = LOG_LEVEL_TRACE    -> <<"T", "R", "A", "C", "E">>
    [] level = LOG_LEVEL_DEBUG    -> <<"D", "E", "B", "U", "G">>
    [] level = LOG_LEVEL_INFO     -> <<"I", "N", "F", "O">>
    [] level = LOG_LEVEL_WARNING  -> <<"W", "A", "R", "N", "I", "N", "G">>
    [] level = LOG_LEVEL_ERROR    -> <<"E", "R", "R", "O", "R">>
    [] level = LOG_LEVEL_CRITICAL -> <<"C", "R", "I", "T", "I", "C", "A", "L">>
    [] level >= LOG_LEVEL_ALWAYS  -> <<"A", "L", "W", "A", "Y", "S">>
    [] OTHER                      -> <<"U", "N", "K", "N", "O", "W", "N">>

\* The switch of elog_level_name.
LevelName(level) ==
  CASE level = LOG_LEVEL_TRACE    -> <<"T", "R", "A", "C", "E">>
    [] level = LOG_LEVEL_DEBUG    -> <<"D", "E", "B", "U", "G">>
    [] level = LOG_LEVEL_INFO     -> <<"I", "N", "F", "O">>
    [] level = LOG_LEVEL_WARNING  -> <<"W", "A", "R", "N", "I", "N", "G">>
    [] level = LOG_LEVEL_ERROR    -> <<"E", "R", "R", "O", "R">>
    [] level = LOG_LEVEL_CRITICAL -> <<"C", "R", "I", "T", "I", "C", "A", "L">>
    [] level = LOG_LEVEL_ALWAYS   -> <<"A", "L", "W", "A", "Y", "S">>
    [] OTHER                      -> <<"U", "N", "K", "N", "O", "W", "N">>

(***************************************************************************)
(* The per-file threshold table.                                           *)
(***************************************************************************)
\* FileLogLevelEntry
FileEntry(filename, threshold) ==
  [filename |-> filename, threshold |-> threshold]

\* int fileLogLevelCount
fileLogLevelCount == Len(fileLogLevels)

\* The loop shared by elog_set_file_threshold and elog_get_file_threshold:
\*   for (i = 0; i < fileLogLevelCount; ++i)
\*     if (strcmp(fileLogLevels[i].filename, filename) == 0) ...
\* Position of the first match from i on, 0 when the loop runs out.
RECURSIVE FindFile(_, _, _)
FindFile(files, filename, i) ==
  IF i > Len(files) THEN 0
  ELSE IF files[i].filename = filename THEN i
  ELSE FindFile(files, filename, i + 1)

\* Faulty elog_set_file_threshold: a full table drops its oldest entry to
\* make room for a new name.
SetFileThresholdEvicting(files, filename, threshold) ==
  IF filename = NullString
  THEN [ret |-> LOG_ERR_INVALID_LEVEL, files |-> files]
  ELSE LET i == FindFile(files, filename, 1) IN
       IF i > 0
       THEN [ret   |-> LOG_ERR_NONE,
             files |-> [files EXCEPT ![i].threshold = threshold]]
       ELSE [ret   |-> LOG_ERR_NONE,
             files |-> Append(IF Len(files) < MAX_FILE_LOG_LEVELS
                              THEN files ELSE Tail(files),
                         FileEntry(strncpy(filename, FILENAME_SIZE - 1),
                                   threshold))]

\* Faulty elog_set_file_threshold: the test of the capacity comes before the
\* search for the name, as in elog_subscribe.
SetFileThresholdCapacityFirst(files, filename, threshold) ==
  IF filename = NullString
  THEN [ret |-> LOG_ERR_INVALID_LEVEL, files |-> files]
  ELSE IF Len(files) >= MAX_FILE_LOG_LEVELS
  THEN [ret |-> LOG_ERR_SUBSCRIBERS_EXCEEDED, files |-> files]
  ELSE LET i == FindFile(files, filename, 1) IN
       IF i > 0
       THEN [ret   |-> LOG_ERR_NONE,
             files |-> [files EXCEPT ![i].threshold = threshold]]
       ELSE [ret   |-> LOG_ERR_NONE,
             files |-> Append(files,
                         FileEntry(strncpy(filename, FILENAME_SIZE - 1),
                                   threshold))]

\* Faulty elog_set_file_threshold: a null name is stored like any other.
SetFileThresholdAcceptingNull(files, filename, threshold) ==
  LET i == FindFile(files, filename, 1) IN
  IF i > 0
  THEN [ret   |-> LOG_ERR_NONE,
        files |-> [files EXCEPT ![i].threshold = threshold]]
  ELSE IF Len(files) < MAX_FILE_LOG_LEVELS
  THEN [ret   |-> LOG_ERR_NONE,
        files |-> Append(files,
                    FileEntry(strncpy(filename, FILENAME_SIZE - 1),
                              threshold))]
  ELSE [ret |-> LOG_ERR_SUBSCRIBERS_EXCEEDED, files |-> files]

\* elog_set_file_threshold: result code and table after the call.
SetFileThresholdResult(files, filename, threshold) ==
  IF filename = NullString
  THEN [ret |-> LOG_ERR_INVALID_LEVEL, files |-> files]
  ELSE LET i == FindFile(files, filename, 1) IN
       IF i > 0
       THEN [ret   |-> LOG_ERR_NONE,
             files |-> [files EXCEPT ![i].threshold = threshold]]
       ELSE IF Len(files) < MAX_FILE_LOG_LEVELS
       THEN [ret   |-> LOG_ERR_NONE,
             files |-> Append(files,
                         FileEntry(strncpy(filename, FILENAME_SIZE - 1),
                                   threshold))]
       ELSE [ret |-> LOG_ERR_SUBSCRIBERS_EXCEEDED, files |-> files]

\* Faulty elog_get_file_threshold: the table is not consulted.
GetFileThresholdAuto(files, filename) == LOG_AUTO_THRESHOLD

\* log_level_t elog_get_file_threshold(const char *filename)
GetFileThreshold(files, filename) ==
  IF filename = NullString THEN LOG_AUTO_THRESHOLD
  ELSE LET i == FindFile(files, filename, 1) IN
       IF i > 0 THEN files[i].threshold ELSE LOG_AUTO_THRESHOLD

(***************************************************************************)
(* Records of the last call.                                               *)
(***************************************************************************)
\* take: the results of the calls of elogMutexTake made in the call, as a
\* set: empty when the function has none or did not reach it.
NoTake == {}

Took(res) == {res}

\* create: 1 when the call called elogMutexCreate, 0 when it did not.
\* thread, mutex: the caller and the pointer argument of a direct call of the
\* mutex wrapper.  text: the complete rendering of fmt and its arguments.
Call(name, fn, level, ret, take) ==
  [name |-> name, fn |-> fn, level |-> level, ret |-> ret, take |-> take,
   file |-> <<>>, create |-> 0, thread |-> NULL, mutex |-> NULL,
   text |-> <<>>]

\* A call whose argument is a file name.
FileCall(name, file, level, ret, take) ==
  [Call(name, NULL, level, ret, take) EXCEPT !.file = file]

\* A call that renders a message: text is what fmt and the arguments give.
TextCall(call, text) == [call EXCEPT !.text = text]

\* A call of elog_init; nth: whether it called elogMutexCreate.
InitCall(nth) == [Call("elog_init", NULL, 0, 0, NoTake) EXCEPT !.create = nth]

\* The address of s_log_mutex.
LogMutex == 1

\* A call of the mutex wrapper made by thread t with result res.
MutexCall(name, t, mutex, res) ==
  [Call(name, NULL, 0, 0, Took(res)) EXCEPT !.thread = t, !.mutex = mutex]

\* The value of before at the start of a call.
Snapshot ==
  [files |-> fileLogLevels, buffer |-> s_message_buffer,
   initialized |-> s_mutex_initialized, owner |-> mutex_owner,
   settings |-> settings]

\* settings after a call of elog_set_file_threshold that returned ret.
AfterSet(done, filename, threshold, ret) ==
  IF ret = LOG_ERR_NONE
  THEN {x \in done : x.name # filename}
         \cup {[name |-> filename, level |-> threshold]}
  ELSE done

\* The callbacks counted as unsubscribed after a subscribe or unsubscribe
\* call for fn that returned ret.
AfterSubscribe(set, fn, ret) ==
  IF ret = LOG_ERR_NONE THEN set \ {fn} ELSE set

AfterUnsubscribe(set, fn, ret) ==
  IF ret = LOG_ERR_NONE THEN set \cup {fn} ELSE set

\* Arguments and locals of a thread inside an API function:
\*   func   the function it is in, "" when in none
\*   fn     the callback argument, level the severity or threshold argument
\*   i      the loop variable of the function
\*   sync   TRUE on the path that called elogMutexTake, FALSE on the
\*          fall-back path taken when s_mutex_initialized is 0
\*   ret    the value the function is going to return
\*   inv    the callbacks this call has invoked so far, in order
Frame(func, fn, level, sync) ==
  [func |-> func, fn |-> fn, level |-> level, i |-> 0, sync |-> sync,
   ret |-> 0, inv |-> <<>>]

IdleFrame == Frame("", NULL, 0, FALSE)

(***************************************************************************)
(* Initial state: static storage of eLog.c at program start.               *)
(***************************************************************************)
Init ==
  /\ s_subscribers = ZeroTable
  /\ s_num_subscribers = 0
  /\ s_mutex_initialized = 0
  /\ RTOS_READY = FALSE
  /\ mutex_owner = NULL
  /\ pre = Registry(ZeroTable, 0)
  /\ op = Call("start", NULL, 0, 0, NoTake)
  /\ invoked = <<>>
  /\ unsubscribed = {}
  /\ fileLogLevels = <<>>
  /\ s_message_buffer = <<>>
  /\ settings = {}
  /\ config = DefaultConfig
  /\ before = Snapshot
  /\ pc = [t \in Threads |-> "idle"]
  /\ frame = [t \in Threads |-> IdleFrame]

(***************************************************************************)
(* Spec: the registry API, one call at a time, made by thread Caller.      *)
(* The *_safe calls take an input held: whether another thread owns        *)
(* s_log_mutex for the duration of the call.                               *)
(***************************************************************************)
\* Faulty test: the *_safe function locks a mutex that was never created.
FallbackNever == FALSE

\* if (!s_mutex_initialized): the *_safe function runs its unsynchronised
\* fall-back.
Fallback == s_mutex_initialized = 0

\* Faulty test: the result of elogMutexTake is ignored.
AcquiredAlways(res) == TRUE

\* The test made on the result of elogMutexTake:
\*   if (elogMutexTake(&s_log_mutex, ELOG_MUTEX_TIMEOUT_MS) != ELOG_THREAD_OK)
\*     return ...;
Acquired(res) == res = ELOG_THREAD_OK

\* Faulty gate: the table is searched for the path as given.
BelowFileThresholdOfPath(files, file, level) ==
  level < GetFileThreshold(files, file)

\* The gate of elog_message_with_location:
\*   threshold = elog_get_file_threshold(debug_get_filename(file));
\*   if (level < threshold) return;
BelowFileThreshold(files, file, level) ==
  level < GetFileThreshold(files, debug_get_filename(file))

\* The user message after the expansion of fmt with its arguments (Spec,
\* whose properties are about the registry, emits the empty message), and
\* the function name and line number of the location-tagged calls.
EmptyText    == <<>>
MessageText  == <<"m">>
LocationFunc == <<"f">>
LocationLine == 42

\* The owner of s_log_mutex as the call of Caller finds it.
MutexFound(held) == IF held THEN OtherThread ELSE NULL

\* The values of held.  The owner is read by tx_mutex_get only, which a call
\* reaches when the mutex was created and RTOS_READY is set; in the other
\* states the call is the same whoever owns the mutex.
Held == IF s_mutex_initialized = 1 /\ RTOS_READY THEN BOOLEAN ELSE {FALSE}

\* What Spec keeps of the owner when the call returns: whether Caller still
\* owns s_log_mutex (the other thread's ownership is an input of each call).
MutexLeft(owner) == IF owner = Caller THEN Caller ELSE NULL

\* elog_init calls elogMutexCreate whatever the flag says.
CallsCreateAlways(initialized) == TRUE

\* elog_init: if (!s_mutex_initialized)
CallsCreate(initialized) == initialized = 0

\* void elog_init(void); created says whether tx_mutex_create succeeds.
elog_init(created) ==
  /\ pre' = Registry(s_subscribers, s_num_subscribers)
  /\ before' = Snapshot
  /\ s_subscribers' = ClearedTable
  /\ s_num_subscribers' = 0
  /\ IF CallsCreate(s_mutex_initialized)
     THEN /\ op' = InitCall(1)
          /\ IF created
             THEN /\ s_mutex_initialized' = 1
                  /\ mutex_owner' = MutexGive(mutex_owner, RTOS_READY,
                                              Caller).owner
             ELSE UNCHANGED <<s_mutex_initialized, mutex_owner>>
     ELSE /\ op' = InitCall(0)
          /\ UNCHANGED <<s_mutex_initialized, mutex_owner>>
  /\ invoked' = <<>>
  /\ unsubscribed' = {}
  /\ UNCHANGED <<RTOS_READY, fileLogLevels, s_message_buffer, settings,
                 config, pc, frame>>

\* log_err_t elog_subscribe(log_subscriber_t fn, log_level_t threshold)
elog_subscribe(fn, threshold) ==
  LET r == SubscribeResult(s_subscribers, s_num_subscribers, fn, threshold) IN
  /\ pre' = Registry(s_subscribers, s_num_subscribers)
  /\ before' = Snapshot
  /\ s_subscribers' = r.subs
  /\ s_num_subscribers' = r.num
  /\ op' = Call("elog_subscribe", fn, threshold, r.ret, NoTake)
  /\ invoked' = <<>>
  /\ unsubscribed' = AfterSubscribe(unsubscribed, fn, r.ret)
  /\ UNCHANGED <<s_mutex_initialized, RTOS_READY, mutex_owner, fileLogLevels,
                 s_message_buffer, settings, config, pc, frame>>

\* log_err_t elog_unsubscribe(log_subscriber_t fn)
elog_unsubscribe(fn) ==
  LET r == UnsubscribeResult(s_subscribers, s_num_subscribers, fn) IN
  /\ pre' = Registry(s_subscribers, s_num_subscribers)
  /\ before' = Snapshot
  /\ s_subscribers' = r.subs
  /\ s_num_subscribers' = r.num
  /\ op' = Call("elog_unsubscribe", fn, 0, r.ret, NoTake)
  /\ invoked' = <<>>
  /\ unsubscribed' = AfterUnsubscribe(unsubscribed, fn, r.ret)
  /\ UNCHANGED <<s_mutex_initialized, RTOS_READY, mutex_owner, fileLogLevels,
                 s_message_buffer, settings, config, pc, frame>>

\* log_err_t elog_subscribe_safe(log_subscriber_t fn, log_level_t threshold)
elog_subscribe_safe(fn, threshold, held) ==
  LET tk == MutexTake(MutexFound(held), RTOS_READY, Caller)
      r  == IF Fallback
            THEN SubscribeResult(s_subscribers, s_num_subscribers, fn, threshold)
            ELSE IF ~Acquired(tk.res)
            THEN SubscribeTimedOut(s_subscribers, s_num_subscribers)
            ELSE SubscribeSafeBody(s_subscribers, s_num_subscribers, fn, threshold)
  IN
  /\ pre' = Registry(s_subscribers, s_num_subscribers)
  /\ before' = Snapshot
  /\ s_subscribers' = r.subs
  /\ s_num_subscribers' = r.num
  /\ op' = Call("elog_subscribe_safe", fn, threshold, r.ret,
                IF Fallback THEN NoTake ELSE Took(tk.res))
  /\ mutex_owner' = IF Fallback THEN mutex_owner
                    ELSE IF ~Acquired(tk.res) THEN MutexLeft(tk.owner)
                    ELSE MutexLeft(MutexGive(tk.owner, RTOS_READY, Caller).owner)
  /\ invoked' = <<>>
  /\ unsubscribed' = AfterSubscribe(unsubscribed, fn, r.ret)
  /\ UNCHANGED <<s_mutex_initialized, RTOS_READY, fileLogLevels,
                 s_message_buffer, settings, config, pc, frame>>

\* log_err_t elog_unsubscribe_safe(log_subscriber_t fn)
elog_unsubscribe_safe(fn, held) ==
  LET tk == MutexTake(MutexFound(held), RTOS_READY, Caller)
      r  == IF Fallback
            THEN UnsubscribeResult(s_subscribers, s_num_subscribers, fn)
            ELSE IF ~Acquired(tk.res)
            THEN UnsubscribeTimedOut(s_subscribers, s_num_subscribers)
            ELSE UnsubscribeSafeBody(s_subscribers, s_num_subscribers, fn)
  IN
  /\ pre' = Registry(s_subscribers, s_num_subscribers)
  /\ before' = Snapshot
  /\ s_subscribers' = r.subs
  /\ s_num_subscribers' = r.num
  /\ op' = Call("elog_unsubscribe_safe", fn, 0, r.ret,
                IF Fallback THEN NoTake ELSE Took(tk.res))
  /\ mutex_owner' = IF Fallback THEN mutex_owner
                    ELSE IF ~Acquired(tk.res) THEN MutexLeft(tk.owner)
                    ELSE MutexLeft(MutexGive(tk.owner, RTOS_READY, Caller).owner)
  /\ invoked' = <<>>
  /\ unsubscribed' = AfterUnsubscribe(unsubscribed, fn, r.ret)
  /\ UNCHANGED <<s_mutex_initialized, RTOS_READY, fileLogLevels,
                 s_message_buffer, settings, config, pc, frame>>

\* void elog_message(log_level_t level, const char *fmt, ...)
elog_message(level, text) ==
  /\ pre' = Registry(s_subscribers, s_num_subscribers)
  /\ before' = Snapshot
  /\ op' = TextCall(Call("elog_message", NULL, level, 0, NoTake), text)
  /\ s_message_buffer' = FormatMessage(text)
  /\ invoked' = Dispatch(s_subscribers, s_num_subscribers, level)
  /\ UNCHANGED <<s_subscribers, s_num_subscribers, s_mutex_initialized,
                 RTOS_READY, mutex_owner, unsubscribed, fileLogLevels,
                 settings, config, pc, frame>>

\* void elog_message_safe(log_level_t level, const char *fmt, ...)
elog_message_safe(level, text, held) ==
  LET tk == MutexTake(MutexFound(held), RTOS_READY, Caller) IN
  /\ pre' = Registry(s_subscribers, s_num_subscribers)
  /\ before' = Snapshot
  /\ op' = TextCall(Call("elog_message_safe", NULL, level, 0,
                         IF Fallback THEN NoTake ELSE Took(tk.res)), text)
  /\ IF Fallback
     THEN /\ s_message_buffer' = FormatMessage(text)
          /\ invoked' = Dispatch(s_subscribers, s_num_subscribers, level)
          /\ UNCHANGED mutex_owner
     ELSE IF ~Acquired(tk.res)
     THEN /\ invoked' = <<>>
          /\ mutex_owner' = MutexLeft(tk.owner)
          /\ UNCHANGED s_message_buffer
     ELSE /\ s_message_buffer' = FormatMessage(text)
          /\ invoked' = Dispatch(s_subscribers, s_num_subscribers, level)
          /\ mutex_owner' =
               MutexLeft(MutexGive(tk.owner, RTOS_READY, Caller).owner)
  /\ UNCHANGED <<s_subscribers, s_num_subscribers, s_mutex_initialized,
                 RTOS_READY, unsubscribed, fileLogLevels, settings, config, pc, frame>>

\* void elog_message_with_location(log_level_t level, const char *file,
\*                                 const char *func, int line, fmt, ...)
elog_message_with_location(level, file, text) ==
  /\ pre' = Registry(s_subscribers, s_num_subscribers)
  /\ before' = Snapshot
  /\ op' = TextCall(FileCall("elog_message_with_location", file, level, 0,
                             NoTake), text)
  /\ IF BelowFileThreshold(fileLogLevels, file, level)
     THEN /\ invoked' = <<>>
          /\ UNCHANGED s_message_buffer
     ELSE /\ s_message_buffer' =
               FormatLocation(file, LocationFunc, LocationLine, text)
          /\ invoked' = Dispatch(s_subscribers, s_num_subscribers, level)
  /\ UNCHANGED <<s_subscribers, s_num_subscribers, s_mutex_initialized,
                 RTOS_READY, mutex_owner, unsubscribed, fileLogLevels,
                 settings, config, pc, frame>>

\* void elog_message_with_location_safe(log_level_t level, const char *file,
\*                                      const char *func, int line, fmt, ...)
elog_message_with_location_safe(level, file, text, held) ==
  LET tk == MutexTake(MutexFound(held), RTOS_READY, Caller) IN
  /\ pre' = Registry(s_subscribers, s_num_subscribers)
  /\ before' = Snapshot
  /\ op' = TextCall(FileCall("elog_message_with_location_safe", file, level,
                             0, IF Fallback THEN NoTake ELSE Took(tk.res)),
                    text)
  /\ IF Fallback
     THEN /\ s_message_buffer' =
               FormatLocation(file, LocationFunc, LocationLine, text)
          /\ invoked' = Dispatch(s_subscribers, s_num_subscribers, level)
          /\ UNCHANGED mutex_owner
     ELSE IF ~Acquired(tk.res)
     THEN /\ invoked' = <<>>
          /\ mutex_owner' = MutexLeft(tk.owner)
          /\ UNCHANGED s_message_buffer
     ELSE /\ s_message_buffer' =
               FormatLocation(file, LocationFunc, LocationLine, text)
          /\ invoked' = Dispatch(s_subscribers, s_num_subscribers, level)
          /\ mutex_owner' =
               MutexLeft(MutexGive(tk.owner, RTOS_READY, Caller).owner)
  /\ UNCHANGED <<s_subscribers, s_num_subscribers, s_mutex_initialized,
                 RTOS_READY, unsubscribed, fileLogLevels, settings, config, pc, frame>>

\* log_err_t elog_set_file_threshold(const char *filename,
\*                                   log_level_t threshold)
elog_set_file_threshold(filename, threshold) ==
  LET r == SetFileThresholdResult(fileLogLevels, filename, threshold) IN
  /\ pre' = Registry(s_subscribers, s_num_subscribers)
  /\ before' = Snapshot
  /\ op' = FileCall("elog_set_file_threshold", filename, threshold, r.ret,
                    NoTake)
  /\ fileLogLevels' = r.files
  /\ settings' = AfterSet(settings, filename, threshold, r.ret)
  /\ invoked' = <<>>
  /\ UNCHANGED <<s_subscribers, s_num_subscribers, s_mutex_initialized,
                 RTOS_READY, mutex_owner, unsubscribed, s_message_buffer,
                 config, pc, frame>>

\* log_level_t elog_get_file_threshold(const char *filename)
elog_get_file_threshold(filename) ==
  /\ pre' = Registry(s_subscribers, s_num_subscribers)
  /\ before' = Snapshot
  /\ op' = FileCall("elog_get_file_threshold", filename, 0,
                    GetFileThreshold(fileLogLevels, filename), NoTake)
  /\ invoked' = <<>>
  /\ UNCHANGED <<s_subscribers, s_num_subscribers, s_mutex_initialized,
                 RTOS_READY, mutex_owner, unsubscribed, fileLogLevels,
                 s_message_buffer, settings, config, pc, frame>>

\* const char *elog_level_name(log_level_t level), called with the level the
\* last call record holds; the name returned is the text of the new record.
elog_level_name ==
  /\ pre' = Registry(s_subscribers, s_num_subscribers)
  /\ before' = Snapshot
  /\ op' = TextCall(Call("elog_level_name", NULL, op.level, 0, NoTake),
                    LevelName(op.level))
  /\ invoked' = <<>>
  /\ UNCHANGED <<s_subscribers, s_num_subscribers, s_mutex_initialized,
                 RTOS_READY, mutex_owner, unsubscribed, fileLogLevels,
                 s_message_buffer, settings, config, pc, frame>>

\* log_level_t elog_get_auto_threshold(void)
elog_get_auto_threshold ==
  /\ pre' = Registry(s_subscribers, s_num_subscribers)
  /\ before' = Snapshot
  /\ op' = Call("elog_get_auto_threshold", NULL, 0, LOG_AUTO_THRESHOLD, NoTake)
  /\ invoked' = <<>>
  /\ UNCHANGED <<s_subscribers, s_num_subscribers, s_mutex_initialized,
                 RTOS_READY, mutex_owner, unsubscribed, fileLogLevels,
                 s_message_buffer, settings, config, pc, frame>>

\* elog_mutex_result_t elogMutexTake(elog_mutex_t *mutex, uint32_t timeout_ms)
\* called by thread t; mutex is NULL or LogMutex.
elogMutexTake(t, mutex) ==
  LET r == IF mutex = NULL
           THEN [res |-> ELOG_THREAD_ERROR, owner |-> mutex_owner]
           ELSE MutexTake(mutex_owner, RTOS_READY, t) IN
  /\ pre' = Registry(s_subscribers, s_num_subscribers)
  /\ before' = Snapshot
  /\ mutex_owner' = r.owner
  /\ op' = MutexCall("elogMutexTake", t, mutex, r.res)
  /\ invoked' = <<>>
  /\ UNCHANGED <<s_subscribers, s_num_subscribers, s_mutex_initialized,
                 RTOS_READY, unsubscribed, fileLogLevels,
                 s_message_buffer, settings, config, pc, frame>>

\* elog_mutex_result_t elogMutexGive(elog_mutex_t *mutex) called by thread t
elogMutexGive(t, mutex) ==
  LET r == IF mutex = NULL
           THEN [res |-> ELOG_THREAD_ERROR, owner |-> mutex_owner]
           ELSE MutexGive(mutex_owner, RTOS_READY, t) IN
  /\ pre' = Registry(s_subscribers, s_num_subscribers)
  /\ before' = Snapshot
  /\ mutex_owner' = r.owner
  /\ op' = MutexCall("elogMutexGive", t, mutex, r.res)
  /\ invoked' = <<>>
  /\ UNCHANGED <<s_subscribers, s_num_subscribers, s_mutex_initialized,
                 RTOS_READY, unsubscribed, fileLogLevels,
                 s_message_buffer, settings, config, pc, frame>>

\* void elog_update_RTOS_ready(bool ready)
elog_update_RTOS_ready(ready) ==
  /\ RTOS_READY' = ready
  /\ pre' = Registry(s_subscribers, s_num_subscribers)
  /\ before' = Snapshot
  /\ op' = Call("elog_update_RTOS_ready", NULL, 0, 0, NoTake)
  /\ invoked' = <<>>
  /\ UNCHANGED <<s_subscribers, s_num_subscribers, s_mutex_initialized,
                 mutex_owner, unsubscribed, fileLogLevels,
                 s_message_buffer, settings, config, pc, frame>>

Next ==
  \/ \E created \in BOOLEAN : elog_init(created)
  \/ \E fn \in Callbacks, threshold \in SubscribeLevels :
       elog_subscribe(fn, threshold)
  \/ \E fn \in Callbacks : elog_unsubscribe(fn)
  \/ \E fn \in Callbacks, threshold \in SubscribeLevels, held \in Held :
       elog_subscribe_safe(fn, threshold, held)
  \/ \E fn \in Callbacks, held \in Held : elog_unsubscribe_safe(fn, held)
  \/ \E level \in MessageLevels : elog_message(level, EmptyText)
  \/ \E level \in MessageLevels, held \in Held :
       elog_message_safe(level, EmptyText, held)
  \/ \E ready \in BOOLEAN : elog_update_RTOS_ready(ready)

Spec == Init /\ [][Next]_vars

(***************************************************************************)
(* SpecEmit: the emit functions with the per-file threshold table, one     *)
(* call at a time, made by thread Caller from program start.               *)
(***************************************************************************)
\* Arguments used by the caller: the console and the file subscriber, a
\* severity for each of the two subscriber thresholds, files named with and
\* without a directory, and the WARNING threshold of the per-file demo.
EmitCallbacks  == {1, 2}
EmitLevels     == {LOG_LEVEL_INFO, LOG_LEVEL_ERROR}
FileArgs       == {<<"d", "/", "a">>, <<"b">>}
ThresholdFiles == {<<"a">>, <<"b">>, <<"c">>}
FileLevels     == {LOG_LEVEL_WARNING}

NextEmit ==
  \/ \E created \in BOOLEAN : elog_init(created)
  \/ \E fn \in EmitCallbacks, threshold \in SubscribeLevels :
       elog_subscribe(fn, threshold)
  \/ \E filename \in ThresholdFiles, threshold \in FileLevels :
       elog_set_file_threshold(filename, threshold)
  \/ \E level \in EmitLevels : elog_message(level, MessageText)
  \/ \E level \in EmitLevels, held \in Held :
       elog_message_safe(level, MessageText, held)
  \/ \E level \in EmitLevels, file \in FileArgs :
       elog_message_with_location(level, file, MessageText)
  \/ \E level \in EmitLevels, file \in FileArgs, held \in Held :
       elog_message_with_location_safe(level, file, MessageText, held)
  \/ \E ready \in BOOLEAN : elog_update_RTOS_ready(ready)

SpecEmit == Init /\ [][NextEmit]_vars

(***************************************************************************)
(* SpecMutex: the mutex wrapper of eLog.c called directly by the threads,  *)
(* on s_log_mutex or on a null pointer, around elog_init and               *)
(* elog_update_RTOS_ready.  mutex_owner is the real owner here.            *)
(***************************************************************************)
NextMutex ==
  \/ \E created \in BOOLEAN : elog_init(created)
  \/ \E t \in Threads, mutex \in {NULL, LogMutex} : elogMutexTake(t, mutex)
  \/ \E t \in Threads, mutex \in {NULL, LogMutex} : elogMutexGive(t, mutex)
  \/ \E ready \in BOOLEAN : elog_update_RTOS_ready(ready)

SpecMutex == Init /\ [][NextMutex]_vars

(***************************************************************************)
(* SpecFiles: the per-file threshold table under every kind of name: the   *)
(* null pointer, the empty string, short names, the longest name an entry  *)
(* holds and names one character longer.                                   *)
(***************************************************************************)

\* The string of n characters c.
Repeat(c, n) == [i \in 1 .. n |-> c]

\* The longest name the filename field holds.
WidestName == Repeat("x", FILENAME_SIZE - 1)

\* A name one character too long for the filename field.
LongName(last) == WidestName \o <<last>>

EmptyName == <<>>

FileNames ==
  {NullString, EmptyName, <<"a">>, WidestName, LongName("y"), LongName("z")}

FileSetLevels == {LOG_LEVEL_WARNING, LOG_LEVEL_ERROR}

NextFiles ==
  \/ \E filename \in FileNames, threshold \in FileSetLevels :
       elog_set_file_threshold(filename, threshold)
  \/ \E filename \in FileNames : elog_get_file_threshold(filename)

SpecFiles == Init /\ [][NextFiles]_vars

(***************************************************************************)
(* SpecAuto: elog_get_auto_threshold in every build: the program starts    *)
(* with any setting of the seven debug flags.                              *)
(***************************************************************************)
InitAuto ==
  /\ s_subscribers = ZeroTable
  /\ s_num_subscribers = 0
  /\ s_mutex_initialized = 0
  /\ RTOS_READY = FALSE
  /\ mutex_owner = NULL
  /\ pre = Registry(ZeroTable, 0)
  /\ op = Call("start", NULL, 0, 0, NoTake)
  /\ invoked = <<>>
  /\ unsubscribed = {}
  /\ fileLogLevels = <<>>
  /\ s_message_buffer = <<>>
  /\ settings = {}
  /\ config \in Configs
  /\ before = Snapshot
  /\ pc = [t \in Threads |-> "idle"]
  /\ frame = [t \in Threads |-> IdleFrame]

NextAuto == elog_get_auto_threshold

SpecAuto == InitAuto /\ [][NextAuto]_vars

(***************************************************************************)
(* SpecName: elog_level_name on every value of a range of int around the   *)
(* seven severities: the program starts with the argument of the call in   *)
(* the level of its call record.                                           *)
(***************************************************************************)
LevelArgs == (LOG_LEVEL_TRACE - 101) .. (LOG_LEVEL_ALWAYS + 20)

InitName ==
  /\ s_subscribers = ZeroTable
  /\ s_num_subscribers = 0
  /\ s_mutex_initialized = 0
  /\ RTOS_READY = FALSE
  /\ mutex_owner = NULL
  /\ pre = Registry(ZeroTable, 0)
  /\ \E level \in LevelArgs : op = Call("start", NULL, level, 0, NoTake)
  /\ invoked = <<>>
  /\ unsubscribed = {}
  /\ fileLogLevels = <<>>
  /\ s_message_buffer = <<>>
  /\ settings = {}
  /\ config = DefaultConfig
  /\ before = Snapshot
  /\ pc = [t \in Threads |-> "idle"]
  /\ frame = [t \in Threads |-> IdleFrame]

NextName == elog_level_name

SpecName == InitName /\ [][NextName]_vars

(***************************************************************************)
(* SpecNull: the registry API with a null pointer among the callbacks.     *)
(***************************************************************************)
NullCallbacks == {NULL, 1}

NextNull ==
  \/ \E created \in BOOLEAN : elog_init(created)
  \/ \E fn \in NullCallbacks, threshold \in SubscribeLevels :
       elog_subscribe(fn, threshold)
  \/ \E fn \in NullCallbacks : elog_unsubscribe(fn)
  \/ \E fn \in NullCallbacks, threshold \in SubscribeLevels, held \in Held :
       elog_subscribe_safe(fn, threshold, held)
  \/ \E fn \in NullCallbacks, held \in Held : elog_unsubscribe_safe(fn, held)
  \/ \E level \in MessageLevels : elog_message(level, EmptyText)
  \/ \E ready \in BOOLEAN : elog_update_RTOS_ready(ready)

SpecNull == Init /\ [][NextNull]_vars

(***************************************************************************)
(* SpecFormat: the formatting of elog_message and                          *)
(* elog_message_with_location on messages and file paths shorter than, as  *)
(* long as and longer than the buffers they go through.                    *)
(***************************************************************************)

\* The string of n characters 1 2 3 ... 9 0 1 2 ...
Numbered(n) == [i \in 1 .. n |-> Digit(i % 10)]

\* Rendered messages around the sizes of temp_buffer and s_message_buffer.
FormatTexts ==
  {Numbered(n) : n \in {0, 1,
                        LOG_MAX_MESSAGE_LENGTH - 64 - 1,
                        LOG_MAX_MESSAGE_LENGTH - 64,
                        LOG_MAX_MESSAGE_LENGTH - 1,
                        LOG_MAX_MESSAGE_LENGTH,
                        LOG_MAX_MESSAGE_LENGTH + 1}}

\* __FILE__ values: a short path, a path that leaves room for a part of the
\* user message only, and a path longer than s_message_buffer.
FormatFiles ==
  {<<"d", "/", "a">>,
   <<"d", "/">> \o Repeat("p", LOG_MAX_MESSAGE_LENGTH - 64),
   <<"d", "/">> \o Repeat("q", LOG_MAX_MESSAGE_LENGTH)}

FormatLevels == {LOG_LEVEL_INFO, LOG_LEVEL_ERROR}

NextFormat ==
  \/ elog_subscribe(1, LOG_LEVEL_INFO)
  \/ elog_set_file_threshold(<<"a">>, LOG_LEVEL_ERROR)
  \/ \E level \in FormatLevels, text \in FormatTexts :
       elog_message(level, text)
  \/ \E level \in FormatLevels, file \in FormatFiles, text \in FormatTexts :
       elog_message_with_location(level, file, text)

SpecFormat == Init /\ [][NextFormat]_vars

(***************************************************************************)
(* SpecMT: threads inside the *_safe functions.                            *)
(*                                                                         *)
(* The threads start after main has called elog_init, in which             *)
(* tx_mutex_create succeeded or failed.  Each thread repeatedly calls one  *)
(* of the *_safe functions and runs it to its return, one statement group  *)
(* per step; elog_update_RTOS_ready may be called at any moment.           *)
(***************************************************************************)
\* Arguments used by the threads.
ThreadLevel     == LOG_LEVEL_ERROR
ThreadThreshold == LOG_LEVEL_INFO
ThreadCallbacks == {1, 2}
ThreadFile      == <<"b">>

\* The frame of a thread whose call has returned with value ret: the locals
\* are gone and the value is the caller's.
Returned(f, ret) == IdleFrame

\* pc and frame of thread t when the body of its function ends with return
\* value ret: on to the elogMutexGive of the synchronised path, or back to
\* the caller on the fall-back path.
EndBody(t, ret) ==
  IF frame[t].sync
  THEN /\ pc' = [pc EXCEPT ![t] = "give"]
       /\ frame' = [frame EXCEPT ![t].ret = ret]
  ELSE /\ pc' = [pc EXCEPT ![t] = "idle"]
       /\ frame' = [frame EXCEPT ![t] = Returned(frame[t], ret)]

InitMT ==
  /\ s_subscribers = ClearedTable
  /\ s_num_subscribers = 0
  /\ s_mutex_initialized \in {0, 1}
  /\ RTOS_READY = FALSE
  /\ mutex_owner = NULL
  /\ pre = Registry(ClearedTable, 0)
  /\ op = Call("elog_init", NULL, 0, 0, NoTake)
  /\ invoked = <<>>
  /\ unsubscribed = {}
  /\ fileLogLevels = <<>>
  /\ s_message_buffer = <<>>
  /\ settings = {}
  /\ config = DefaultConfig
  /\ before = Snapshot
  /\ pc = [t \in Threads |-> "idle"]
  /\ frame = [t \in Threads |-> IdleFrame]

\* Variables the threads of SpecMT never write.
seqVars == <<s_mutex_initialized, pre, op, invoked, unsubscribed,
            fileLogLevels, before, settings, config>>

\* First position of a *_safe function: the test of s_mutex_initialized.
Enter(t, func, fn, level, body) ==
  /\ pc[t] = "idle"
  /\ frame' = [frame EXCEPT ![t] = Frame(func, fn, level, s_mutex_initialized # 0)]
  /\ pc' = [pc EXCEPT ![t] = IF s_mutex_initialized = 0 THEN body ELSE "take"]
  /\ UNCHANGED <<s_subscribers, s_num_subscribers, RTOS_READY, mutex_owner,
                 s_message_buffer,
                 seqVars>>

\* First position of the body of each function.
Body(func) ==
  CASE func = "elog_message_safe"               -> "format"
    [] func = "elog_message_with_location_safe" -> "format"
    [] func = "elog_subscribe_safe"             -> "subscribe"
    [] func = "elog_unsubscribe_safe"           -> "unsubscribe"

mt_message_safe(t) ==
  Enter(t, "elog_message_safe", NULL, ThreadLevel, "format")

mt_message_with_location_safe(t) ==
  Enter(t, "elog_message_with_location_safe", NULL, ThreadLevel, "format")

mt_subscribe_safe(t, fn) ==
  Enter(t, "elog_subscribe_safe", fn, ThreadThreshold, "subscribe")

mt_unsubscribe_safe(t, fn) ==
  Enter(t, "elog_unsubscribe_safe", fn, 0, "unsubscribe")

\* A function that enters its body whatever elogMutexTake returned.
AfterTakeUnchecked(res, func) == Body(func)

\* A function that calls elogMutexTake again when it did not return
\* ELOG_THREAD_OK.
AfterTakeRetrying(res, func) ==
  IF res = ELOG_THREAD_OK THEN Body(func) ELSE "take"

\* Where a *_safe function goes after elogMutexTake returned res: into its
\* body, or back to its caller.
AfterTake(res, func) ==
  IF res = ELOG_THREAD_OK THEN Body(func) ELSE "idle"

\* if (elogMutexTake(&s_log_mutex, ELOG_MUTEX_TIMEOUT_MS) != ELOG_THREAD_OK)
\*   return ...;
mt_take(t) ==
  /\ pc[t] = "take"
  /\ LET tk == MutexTake(mutex_owner, RTOS_READY, t)
         to == AfterTake(tk.res, frame[t].func) IN
     /\ mutex_owner' = tk.owner
     /\ pc' = [pc EXCEPT ![t] = to]
     /\ IF to = "idle"
        THEN frame' = [frame EXCEPT ![t] = Returned(frame[t],
                  IF frame[t].func = "elog_subscribe_safe"
                  THEN LOG_ERR_SUBSCRIBERS_EXCEEDED
                  ELSE IF frame[t].func = "elog_unsubscribe_safe"
                  THEN LOG_ERR_NOT_SUBSCRIBED
                  ELSE 0)]
        ELSE UNCHANGED frame
  /\ UNCHANGED <<s_subscribers, s_num_subscribers, RTOS_READY, s_message_buffer,
                 seqVars>>

\* vsnprintf / snprintf into s_message_buffer; the dispatch loop starts.
mt_format(t) ==
  /\ pc[t] = "format"
  /\ pc' = [pc EXCEPT ![t] = "dispatch"]
  /\ frame' = [frame EXCEPT ![t].i = 0]
  /\ s_message_buffer' =
       IF frame[t].func = "elog_message_with_location_safe"
       THEN FormatLocation(ThreadFile, LocationFunc, LocationLine, MessageText)
       ELSE FormatMessage(MessageText)
  /\ UNCHANGED <<s_subscribers, s_num_subscribers, RTOS_READY, mutex_owner,
                 seqVars>>

\* One evaluation of the loop test and, when it holds, one iteration of
\*   for (i = 0; i < s_num_subscribers; i++) if (eligible) fn(level, buffer);
mt_dispatch(t) ==
  /\ pc[t] = "dispatch"
  /\ LET i == frame[t].i IN
     IF i < s_num_subscribers /\ i \in Slots
     THEN /\ frame' = [frame EXCEPT
                ![t].i = i + 1,
                ![t].inv = IF Eligible(s_subscribers[i], frame[t].level)
                           THEN Append(@, s_subscribers[i].fn) ELSE @]
          /\ UNCHANGED pc
     ELSE EndBody(t, 0)
  /\ UNCHANGED <<s_subscribers, s_num_subscribers, RTOS_READY, mutex_owner,
                 s_message_buffer,
                 seqVars>>

\* elog_subscribe / the critical section of elog_subscribe_safe up to the
\* append: the capacity test and the scan for an existing subscription.
mt_subscribe(t) ==
  /\ pc[t] = "subscribe"
  /\ IF ~(s_num_subscribers < LOG_MAX_SUBSCRIBERS)
     THEN /\ EndBody(t, LOG_ERR_SUBSCRIBERS_EXCEEDED)
          /\ UNCHANGED s_subscribers
     ELSE LET i == FindActive(s_subscribers, s_num_subscribers, frame[t].fn, 0) IN
          IF i >= 0
          THEN /\ s_subscribers' =
                    [s_subscribers EXCEPT ![i].threshold = frame[t].level]
               /\ EndBody(t, LOG_ERR_NONE)
          ELSE /\ pc' = [pc EXCEPT ![t] = "append"]
               /\ UNCHANGED <<s_subscribers, frame>>
  /\ UNCHANGED <<s_num_subscribers, RTOS_READY, mutex_owner, s_message_buffer,
                 seqVars>>

\* s_subscribers[s_num_subscribers].fn = fn; .threshold = threshold;
\* .active = 1;  An index past the array (reachable only when another thread
\* moved the count after the capacity test) writes no entry of the table.
mt_append(t) ==
  /\ pc[t] = "append"
  /\ s_subscribers' =
       IF s_num_subscribers \in Slots
       THEN [s_subscribers EXCEPT ![s_num_subscribers] =
               Entry(frame[t].fn, frame[t].level, 1)]
       ELSE s_subscribers
  /\ pc' = [pc EXCEPT ![t] = "count"]
  /\ UNCHANGED <<s_num_subscribers, RTOS_READY, mutex_owner, frame, s_message_buffer,
                 seqVars>>

\* s_num_subscribers++; result = LOG_ERR_NONE;
mt_count(t) ==
  /\ pc[t] = "count"
  /\ s_num_subscribers' = s_num_subscribers + 1
  /\ EndBody(t, LOG_ERR_NONE)
  /\ UNCHANGED <<s_subscribers, RTOS_READY, mutex_owner, s_message_buffer,
                 seqVars>>

\* elog_unsubscribe / the critical section of elog_unsubscribe_safe.
mt_unsubscribe(t) ==
  /\ pc[t] = "unsubscribe"
  /\ LET num == IF s_num_subscribers <= LOG_MAX_SUBSCRIBERS
                THEN s_num_subscribers ELSE LOG_MAX_SUBSCRIBERS
         r   == UnsubscribeSafeBody(s_subscribers, num, frame[t].fn)
     IN /\ s_subscribers' = r.subs
        /\ EndBody(t, r.ret)
  /\ UNCHANGED <<s_num_subscribers, RTOS_READY, mutex_owner, s_message_buffer,
                 seqVars>>

\* elogMutexGive(&s_log_mutex); return.
mt_give(t) ==
  /\ pc[t] = "give"
  /\ mutex_owner' = MutexGive(mutex_owner, RTOS_READY, t).owner
  /\ pc' = [pc EXCEPT ![t] = "idle"]
  /\ frame' = [frame EXCEPT ![t] = Returned(frame[t], frame[t].ret)]
  /\ UNCHANGED <<s_subscribers, s_num_subscribers, RTOS_READY, s_message_buffer,
                 seqVars>>

\* void elog_update_RTOS_ready(bool ready), called by the application.
mt_update_RTOS_ready(ready) ==
  /\ RTOS_READY' = ready
  /\ UNCHANGED <<s_subscribers, s_num_subscribers, mutex_owner, pc, frame,
                 s_message_buffer,
                 seqVars>>

NextMT ==
  \/ \E t \in Threads : mt_message_safe(t)
  \/ \E t \in Threads : mt_message_with_location_safe(t)
  \/ \E t \in Threads, fn \in ThreadCallbacks : mt_subscribe_safe(t, fn)
  \/ \E t \in Threads, fn \in ThreadCallbacks : mt_unsubscribe_safe(t, fn)
  \/ \E t \in Threads : mt_take(t)
  \/ \E t \in Threads : mt_format(t)
  \/ \E t \in Threads : mt_dispatch(t)
  \/ \E t \in Threads : mt_subscribe(t)
  \/ \E t \in Threads : mt_append(t)
  \/ \E t \in Threads : mt_count(t)
  \/ \E t \in Threads : mt_unsubscribe(t)
  \/ \E t \in Threads : mt_give(t)
  \/ \E ready \in BOOLEAN : mt_update_RTOS_ready(ready)

SpecMT == InitMT /\ [][NextMT]_vars

(***************************************************************************)
(* SpecLive: two threads in the *_safe functions with one callback, under  *)
(* the assumptions that a thread inside a function is scheduled again,     *)
(* that tx_mutex_get returns (at the latest when its timeout expires) and  *)
(* that a callback returns: every step of a thread inside a function is    *)
(* weakly fair.  Entering a function is not: a thread may stay idle, also   *)
(* while it owns s_log_mutex.                                               *)
(***************************************************************************)
LiveThreads   == {Caller, OtherThread}
LiveCallbacks == {1}

\* The next step of thread t inside a *_safe function.
ThreadStep(t) ==
  \/ mt_take(t)
  \/ mt_format(t)
  \/ mt_dispatch(t)
  \/ mt_subscribe(t)
  \/ mt_append(t)
  \/ mt_count(t)
  \/ mt_unsubscribe(t)
  \/ mt_give(t)

NextLive ==
  \/ \E t \in LiveThreads : mt_message_safe(t)
  \/ \E t \in LiveThreads : mt_message_with_location_safe(t)
  \/ \E t \in LiveThreads, fn \in LiveCallbacks : mt_subscribe_safe(t, fn)
  \/ \E t \in LiveThreads, fn \in LiveCallbacks : mt_unsubscribe_safe(t, fn)
  \/ \E t \in LiveThreads : ThreadStep(t)
  \/ \E ready \in BOOLEAN : mt_update_RTOS_ready(ready)

SpecLive ==
  /\ InitMT
  /\ [][NextLive]_vars
  /\ \A t \in LiveThreads : WF_vars(ThreadStep(t))

(***************************************************************************)
(* SpecLocked: the threads in the *_safe functions after elog_init created *)
(* the mutex and elog_update_RTOS_ready(true) was called, with no later    *)
(* call of elog_update_RTOS_ready.                                         *)
(***************************************************************************)
InitLocked ==
  /\ s_subscribers = ClearedTable
  /\ s_num_subscribers = 0
  /\ s_mutex_initialized = 1
  /\ RTOS_READY = TRUE
  /\ mutex_owner = NULL
  /\ pre = Registry(ClearedTable, 0)
  /\ op = Call("elog_update_RTOS_ready", NULL, 0, 0, NoTake)
  /\ invoked = <<>>
  /\ unsubscribed = {}
  /\ fileLogLevels = <<>>
  /\ s_message_buffer = <<>>
  /\ settings = {}
  /\ config = DefaultConfig
  /\ before = Snapshot
  /\ pc = [t \in Threads |-> "idle"]
  /\ frame = [t \in Threads |-> IdleFrame]

NextLocked ==
  \/ \E t \in Threads : mt_message_safe(t)
  \/ \E t \in Threads : mt_message_with_location_safe(t)
  \/ \E t \in Threads, fn \in ThreadCallbacks : mt_subscribe_safe(t, fn)
  \/ \E t \in Threads, fn \in ThreadCallbacks : mt_unsubscribe_safe(t, fn)
  \/ \E t \in Threads : ThreadStep(t)

SpecLocked == InitLocked /\ [][NextLocked]_vars

(***************************************************************************)
(* Vocabulary of the properties, written over the registry records         *)
(* [subs, num] and independent of the operators above.                     *)
(***************************************************************************)
Now == Registry(s_subscribers, s_num_subscribers)

\* Slots in use of a registry.
Used(reg) == {i \in Slots : i < reg.num}

\* Slots holding an active entry for callback fn.
ActiveFor(reg, fn) ==
  {i \in Used(reg) : reg.subs[i].fn = fn /\ reg.subs[i].active # 0}

\* Slots holding any entry, active or not, for callback fn.
EntriesFor(reg, fn) == {i \in Used(reg) : reg.subs[i].fn = fn}

\* Slots a message of severity level must be delivered to.
Due(reg, level) ==
  {i \in Used(reg) : reg.subs[i].active # 0 /\ reg.subs[i].threshold <= level}

Min(S) == CHOOSE x \in S : \A y \in S : x <= y

IsSubscribe   == op.name \in {"elog_subscribe", "elog_subscribe_safe"}
IsUnsubscribe == op.name \in {"elog_unsubscribe", "elog_unsubscribe_safe"}

\* The last call was a dispatching call that was not dropped: elog_message,
\* or elog_message_safe with the mutex acquired or never created.
IsDispatch ==
  /\ op.name \in {"elog_message", "elog_message_safe"}
  /\ op.take \subseteq {ELOG_THREAD_OK}

InvokedSlots == {invoked[k].idx : k \in DOMAIN invoked}

(***************************************************************************)
(* C1 - C10: registry and dispatch, checked under Spec (C3: under SpecMT).  *)
(***************************************************************************)

\* C1: one call of elog_message (or of elog_message_safe with the mutex
\* acquired or never created) at severity s invokes exactly the entries with
\* index < count that are active and whose threshold <= s, each exactly
\* once, with that entry's callback and severity s, and no other entry.
C1_DispatchExactlyEligible ==
  IsDispatch =>
    /\ InvokedSlots = Due(pre, op.level)
    /\ Len(invoked) = Cardinality(Due(pre, op.level))
    /\ \A k \in DOMAIN invoked :
         /\ invoked[k].fn = pre.subs[invoked[k].idx].fn
         /\ invoked[k].level = op.level

\* Witness of C1: elog_message_safe really acquired the mutex and its
\* dispatch reached some but not all entries of a table with two entries.
C1_Witness ==
  /\ op.name = "elog_message_safe"
  /\ op.take = {ELOG_THREAD_OK}
  /\ s_mutex_initialized = 1 /\ RTOS_READY
  /\ pre.num >= 2
  /\ Len(invoked) >= 1 /\ Len(invoked) < pre.num

\* C2: within one dispatch the eligible subscribers are invoked in table
\* order, which is insertion order (entries are only ever appended at index
\* s_num_subscribers): the slot indices of consecutive invocations increase.
C2_DispatchInInsertionOrder ==
  IsDispatch =>
    \A j, k \in DOMAIN invoked : j < k => invoked[j].idx < invoked[k].idx

\* Witness of C2: a dispatch that invoked two different callbacks.
C2_Witness ==
  /\ IsDispatch
  /\ Len(invoked) >= 2
  /\ invoked[1].fn # invoked[2].fn

\* C3: with the mutex created by elog_init, in every reachable state of every
\* interleaving of threads calling elog_message_safe and
\* elog_message_with_location_safe, at most one thread is between the start
\* of formatting into s_message_buffer and the end of its dispatch loop.
\* (Stated as claimed; checked under SpecMT, where the code refutes it while
\* RTOS_READY is false.)
InFormatDispatch(t) ==
  /\ pc[t] = "dispatch"
  /\ frame[t].func \in {"elog_message_safe", "elog_message_with_location_safe"}

C3_OneThreadInFormatDispatch ==
  s_mutex_initialized = 1 =>
    Cardinality({t \in Threads : InFormatDispatch(t)}) <= 1

\* C4: subscribing a callback that already has an active entry returns
\* LOG_ERR_NONE, sets that entry's threshold, changes nothing else and leaves
\* exactly one active entry for it - in every registry state, a full table
\* included.  (Stated as claimed; the code refutes it when the table is full.)
C4_ResubscribeUpdatesInPlace ==
  (IsSubscribe /\ op.take \subseteq {ELOG_THREAD_OK}
     /\ ActiveFor(pre, op.fn) # {}) =>
    /\ op.ret = LOG_ERR_NONE
    /\ s_num_subscribers = pre.num
    /\ \E i \in ActiveFor(pre, op.fn) :
         s_subscribers = [pre.subs EXCEPT ![i].threshold = op.level]
    /\ Cardinality(ActiveFor(Now, op.fn)) = 1
    /\ \A i \in ActiveFor(Now, op.fn) : s_subscribers[i].threshold = op.level

\* C5: once LOG_MAX_SUBSCRIBERS distinct callbacks have been subscribed,
\* subscribing one more distinct callback returns
\* LOG_ERR_SUBSCRIBERS_EXCEEDED and leaves count, callbacks, thresholds and
\* active flags unchanged.
C5_OneMoreThanCapacityFails ==
  (IsSubscribe
     /\ pre.num = LOG_MAX_SUBSCRIBERS
     /\ Cardinality({pre.subs[i].fn : i \in Used(pre)}) = LOG_MAX_SUBSCRIBERS
     /\ EntriesFor(pre, op.fn) = {}) =>
    /\ op.ret = LOG_ERR_SUBSCRIBERS_EXCEEDED
    /\ Now = pre

\* Witness of C5: the refused subscription found every slot active, and the
\* table still holds them.
C5_Witness ==
  /\ op.name = "elog_subscribe"
  /\ op.ret = LOG_ERR_SUBSCRIBERS_EXCEEDED
  /\ pre.num = LOG_MAX_SUBSCRIBERS
  /\ Cardinality({pre.subs[i].fn : i \in Used(pre)}) = LOG_MAX_SUBSCRIBERS
  /\ EntriesFor(pre, op.fn) = {}
  /\ \A i \in Used(Now) : s_subscribers[i].active # 0

\* C6: elog_unsubscribe(cb) for a callback without an active entry returns
\* LOG_ERR_NOT_SUBSCRIBED and leaves the count and every entry unchanged.
C6_UnsubscribeUnknownIsNoOp ==
  (IsUnsubscribe /\ ActiveFor(pre, op.fn) = {}) =>
    /\ op.ret = LOG_ERR_NOT_SUBSCRIBED
    /\ Now = pre

\* Witness of C6: unsubscribing a callback whose only entry is already
\* inactive, while another subscriber is active.
C6_Witness ==
  /\ op.name = "elog_unsubscribe"
  /\ op.ret = LOG_ERR_NOT_SUBSCRIBED
  /\ EntriesFor(pre, op.fn) # {}
  /\ \E i \in Used(pre) : pre.subs[i].active # 0

\* C7: after elog_unsubscribe(cb) returns LOG_ERR_NONE exactly one entry has
\* changed, the first active entry for cb, from active to inactive; and no
\* dispatch invokes a callback that was unsubscribed and not subscribed
\* again.
C7_UnsubscribeSilences ==
  /\ (IsUnsubscribe /\ op.ret = LOG_ERR_NONE) =>
       /\ ActiveFor(pre, op.fn) # {}
       /\ s_subscribers =
            [pre.subs EXCEPT ![Min(ActiveFor(pre, op.fn))].active = 0]
       /\ s_num_subscribers = pre.num
  /\ IsDispatch => \A k \in DOMAIN invoked : invoked[k].fn \notin unsubscribed

\* Witness of C7: a dispatch that reached a subscriber although the table
\* also holds the entry of an unsubscribed callback whose threshold the
\* message meets.
C7_Witness ==
  /\ IsDispatch
  /\ invoked # <<>>
  /\ \E i \in Used(pre) :
       /\ pre.subs[i].fn \in unsubscribed
       /\ pre.subs[i].threshold <= op.level

\* C8: after any sequence of elog_init, elog_subscribe(_safe) and
\* elog_unsubscribe(_safe) calls made one at a time, no callback has more
\* than one active entry.
C8_OneActiveEntryPerCallback ==
  \A fn \in Callbacks \cup {NULL} :
    Cardinality({i \in Slots :
                   s_subscribers[i].fn = fn /\ s_subscribers[i].active # 0}) <= 1

\* Witness of C8: a callback that was unsubscribed and subscribed again owns
\* two entries, one of them active.
C8_Witness ==
  \E fn \in Callbacks :
    /\ Cardinality(EntriesFor(Now, fn)) >= 2
    /\ Cardinality(ActiveFor(Now, fn)) = 1

\* C9: only elog_init decreases the count, unsubscribe leaves it unchanged,
\* a slot once given to a callback keeps that callback; and once the count
\* has reached LOG_MAX_SUBSCRIBERS, subscribing a callback without an active
\* entry fails with LOG_ERR_SUBSCRIBERS_EXCEEDED.
C9_CapacityConsumedMonotonically ==
  /\ op.name # "elog_init" =>
       /\ s_num_subscribers >= pre.num
       /\ \A i \in Used(pre) : s_subscribers[i].fn = pre.subs[i].fn
  /\ IsUnsubscribe => s_num_subscribers = pre.num
  /\ (IsSubscribe /\ pre.num >= LOG_MAX_SUBSCRIBERS
        /\ ActiveFor(pre, op.fn) = {}) =>
       /\ op.ret = LOG_ERR_SUBSCRIBERS_EXCEEDED
       /\ Now = pre

\* Witness of C9: a subscription refused although every entry of the full
\* table is inactive.
C9_Witness ==
  /\ IsSubscribe
  /\ op.ret = LOG_ERR_SUBSCRIBERS_EXCEEDED
  /\ pre.num = LOG_MAX_SUBSCRIBERS
  /\ \A i \in Used(pre) : pre.subs[i].active = 0

\* C10: with the count at its maximum, elog_subscribe(cb, t) fails with
\* LOG_ERR_SUBSCRIBERS_EXCEEDED only if no entry of the table matches cb; if
\* cb has an entry, active or unsubscribed, the call succeeds.  (Stated as
\* claimed; the code refuses every subscription once the count is at its
\* maximum.)
C10_FullTableFailsOnlyWithoutMatch ==
  (op.name = "elog_subscribe" /\ pre.num >= LOG_MAX_SUBSCRIBERS) =>
    /\ op.ret = LOG_ERR_SUBSCRIBERS_EXCEEDED => EntriesFor(pre, op.fn) = {}
    /\ EntriesFor(pre, op.fn) # {} => op.ret = LOG_ERR_NONE

(***************************************************************************)
(* C11 - C20: initialisation, the emit functions and the *_safe wrappers.  *)
(***************************************************************************)

\* C11: after elog_init, in whatever state it was called, the count is 0 and
\* every entry is inactive with a null callback; while the count is 0 no
\* dispatch invokes a subscriber and only a successful subscribe moves the
\* count; and a subscribe made while the count is below LOG_MAX_SUBSCRIBERS
\* (mutex acquired or never created) succeeds, so that LOG_MAX_SUBSCRIBERS
\* new subscriptions are possible after elog_init.
C11_InitEmptiesRegistry ==
  /\ op.name = "elog_init" =>
       /\ s_num_subscribers = 0
       /\ \A i \in Slots :
            s_subscribers[i].fn = NULL /\ s_subscribers[i].active = 0
  /\ pre.num = 0 =>
       /\ invoked = <<>>
       /\ ~(IsSubscribe /\ op.ret = LOG_ERR_NONE) => s_num_subscribers = 0
  /\ (IsSubscribe /\ op.take \subseteq {ELOG_THREAD_OK}
        /\ pre.num < LOG_MAX_SUBSCRIBERS) =>
       /\ op.ret = LOG_ERR_NONE
       /\ ActiveFor(Now, op.fn) # {}

\* Witness of C11: elog_init called on a full table with an active entry.
C11_Witness ==
  /\ op.name = "elog_init"
  /\ pre.num = LOG_MAX_SUBSCRIBERS
  /\ \E i \in Used(pre) : pre.subs[i].active # 0

\* The threshold in force for a file name in a per-file table: that of the
\* first entry stored under the name, LOG_AUTO_THRESHOLD when there is none.
EntriesNamed(files, name) == {k \in DOMAIN files : files[k].filename = name}

Override(files, name) ==
  IF EntriesNamed(files, name) = {} THEN LOG_AUTO_THRESHOLD
  ELSE files[Min(EntriesNamed(files, name))].threshold

\* C12 as claimed: after elog_init the per-file threshold table is empty and
\* elog_get_file_threshold returns LOG_AUTO_THRESHOLD for every name.
C12_InitClearsFileThresholds ==
  op.name = "elog_init" =>
    /\ fileLogLevels = <<>>
    /\ \A name \in ThresholdFiles :
         GetFileThreshold(fileLogLevels, name) = LOG_AUTO_THRESHOLD

\* C12 as the code has it: elog_init clears the subscriber table only; the
\* per-file threshold table is the one it found, and elog_get_file_threshold
\* returns for every name what the table held for it before the call.
C12_InitKeepsFileThresholds ==
  op.name = "elog_init" =>
    /\ s_num_subscribers = 0
    /\ fileLogLevels = before.files
    /\ \A name \in ThresholdFiles :
         GetFileThreshold(fileLogLevels, name) = Override(before.files, name)

\* Witness of C12: elog_init called while a name has an override.
C12_Witness ==
  /\ op.name = "elog_init"
  /\ \E name \in ThresholdFiles :
       Override(before.files, name) # LOG_AUTO_THRESHOLD

\* C13: no call, elog_init included, lowers the number of entries of the
\* per-file table, the number never exceeds MAX_FILE_LOG_LEVELS, and an
\* entry keeps its name.
C13_FileTableOnlyGrows ==
  /\ Len(fileLogLevels) >= Len(before.files)
  /\ Len(fileLogLevels) <= MAX_FILE_LOG_LEVELS
  /\ \A k \in DOMAIN before.files :
       fileLogLevels[k].filename = before.files[k].filename

\* Witness of C13: elog_set_file_threshold for a new name refused by a full
\* table.
C13_Witness ==
  /\ op.name = "elog_set_file_threshold"
  /\ op.ret = LOG_ERR_SUBSCRIBERS_EXCEEDED
  /\ Len(before.files) = MAX_FILE_LOG_LEVELS
  /\ EntriesNamed(before.files, op.file) = {}

\* The name under which the threshold of a source file is kept: the path
\* without its directories.
BaseName(path) ==
  LET seps == {k \in DOMAIN path : path[k] \in {"/", "\\"}} IN
  IF seps = {} THEN path
  ELSE SubSeq(path, (CHOOSE k \in seps : \A j \in seps : j <= k) + 1, Len(path))

\* The threshold of the module of the last call, as the per-file table had
\* it when the call started.
ModuleThreshold == Override(before.files, BaseName(op.file))

\* C14: elog_message_with_location at a severity below the threshold of its
\* module invokes no subscriber and leaves the message buffer as it was; at
\* or above that threshold it invokes exactly the active subscribers whose
\* threshold is at most the severity, each at that severity.
C14_LocationGate ==
  op.name = "elog_message_with_location" =>
    IF op.level < ModuleThreshold
    THEN /\ invoked = <<>>
         /\ s_message_buffer = before.buffer
    ELSE /\ InvokedSlots = Due(pre, op.level)
         /\ Len(invoked) = Cardinality(Due(pre, op.level))
         /\ \A k \in DOMAIN invoked : invoked[k].level = op.level

\* Witness of C14: a message from a file given with its directory, dropped
\* by the threshold of its module although a subscriber was due for it and
\* the buffer held an earlier text.
C14_Witness ==
  /\ op.name = "elog_message_with_location"
  /\ op.level < ModuleThreshold
  /\ BaseName(op.file) # op.file
  /\ Due(pre, op.level) # {}
  /\ before.buffer # <<>>

\* C15 as claimed: elog_message_with_location_safe, with the mutex acquired
\* or never created, invokes the subscribers elog_message_with_location
\* would: nobody below the threshold of the module, the due subscribers
\* otherwise.
C15_SafeLocationAsUnsafe ==
  (op.name = "elog_message_with_location_safe"
     /\ op.take \subseteq {ELOG_THREAD_OK}) =>
    IF op.level < ModuleThreshold
    THEN invoked = <<>>
    ELSE InvokedSlots = Due(pre, op.level)

\* C16: elog_message_safe and elog_message_with_location_safe whose
\* elogMutexTake did not return ELOG_THREAD_OK invoke no subscriber and
\* leave the message buffer, the registry, the per-file table and the mutex
\* as they were.
C16_TimeoutDropsMessage ==
  (op.name \in {"elog_message_safe", "elog_message_with_location_safe"}
     /\ op.take # {} /\ op.take # {ELOG_THREAD_OK}) =>
    /\ invoked = <<>>
    /\ s_message_buffer = before.buffer
    /\ Now = pre
    /\ fileLogLevels = before.files
    /\ mutex_owner # Caller

\* Witness of C16: a location-tagged message dropped on a timeout while a
\* subscriber was due for it and the buffer held an earlier text.
C16_Witness ==
  /\ op.name = "elog_message_with_location_safe"
  /\ op.take = {ELOG_THREAD_TIMEOUT}
  /\ Due(pre, op.level) # {}
  /\ before.buffer # <<>>

\* The result of the last call as a record [ret, subs, num].
Outcome == [ret |-> op.ret, subs |-> s_subscribers, num |-> s_num_subscribers]

\* C17: when the mutex exists and elogMutexTake does not return
\* ELOG_THREAD_OK, elog_subscribe_safe returns LOG_ERR_SUBSCRIBERS_EXCEEDED
\* and elog_unsubscribe_safe returns LOG_ERR_NOT_SUBSCRIBED, and the
\* subscriber table and its count are unchanged.
C17_TimeoutFailsSubscribe ==
  (op.take # {} /\ op.take # {ELOG_THREAD_OK}) =>
    /\ op.name = "elog_subscribe_safe" =>
         op.ret = LOG_ERR_SUBSCRIBERS_EXCEEDED
    /\ op.name = "elog_unsubscribe_safe" =>
         op.ret = LOG_ERR_NOT_SUBSCRIBED
    /\ Now = pre

\* Witness of C17: elog_unsubscribe_safe of an active subscriber and
\* elog_subscribe_safe into a table with room, each failed by a timeout.
C17_Witness ==
  /\ op.take = {ELOG_THREAD_TIMEOUT}
  /\ \/ op.name = "elog_unsubscribe_safe" /\ ActiveFor(pre, op.fn) # {}
     \/ op.name = "elog_subscribe_safe" /\ pre.num < LOG_MAX_SUBSCRIBERS

\* C18: with the mutex acquired, elog_subscribe_safe(cb, t) and
\* elog_unsubscribe_safe(cb) return the code and leave the table that
\* elog_subscribe(cb, t) and elog_unsubscribe(cb) produce from the same
\* table.
C18_SafeRegistryAsUnsafe ==
  op.take = {ELOG_THREAD_OK} =>
    /\ op.name = "elog_subscribe_safe" =>
         Outcome = SubscribeResult(pre.subs, pre.num, op.fn, op.level)
    /\ op.name = "elog_unsubscribe_safe" =>
         Outcome = UnsubscribeResult(pre.subs, pre.num, op.fn)

\* Witness of C18: elog_subscribe_safe, the mutex acquired, for a callback
\* with an active entry in a full table.
C18_Witness ==
  /\ op.name = "elog_subscribe_safe"
  /\ op.take = {ELOG_THREAD_OK}
  /\ pre.num = LOG_MAX_SUBSCRIBERS
  /\ ActiveFor(pre, op.fn) # {}

\* The calls of the claim of C19 that write shared state.
Wrote ==
  \/ Now # pre
  \/ fileLogLevels # before.files
  \/ s_message_buffer # before.buffer

\* C19 as claimed: once the mutex exists, a call of
\* elog_set_file_threshold or of a *_safe function that writes the
\* subscriber table, the per-file table or the message buffer has taken the
\* mutex.
C19_WritesUnderMutex ==
  (s_mutex_initialized = 1 /\ Wrote
     /\ op.name \in {"elog_set_file_threshold", "elog_message_safe",
                     "elog_message_with_location_safe",
                     "elog_subscribe_safe", "elog_unsubscribe_safe"}) =>
    op.take = {ELOG_THREAD_OK}

\* C20: while s_mutex_initialized is 0 the three *_safe functions make no
\* call of elogMutexTake or elogMutexGive and give the result of the
\* unsynchronised function: elog_message_safe invokes the due subscribers,
\* elog_subscribe_safe and elog_unsubscribe_safe return the code and leave
\* the table of elog_subscribe and elog_unsubscribe.
C20_FallbackAsUnsynchronised ==
  s_mutex_initialized = 0 =>
    /\ op.take = {}
    /\ mutex_owner = NULL
    /\ op.name = "elog_message_safe" =>
         /\ invoked = Dispatch(pre.subs, pre.num, op.level)
         /\ InvokedSlots = Due(pre, op.level)
    /\ op.name = "elog_subscribe_safe" =>
         Outcome = SubscribeResult(pre.subs, pre.num, op.fn, op.level)
    /\ op.name = "elog_unsubscribe_safe" =>
         Outcome = UnsubscribeResult(pre.subs, pre.num, op.fn)

\* Witness of C20: after an elog_init whose mutex creation failed,
\* elog_message_safe reaches a subscriber.
C20_Witness ==
  /\ s_mutex_initialized = 0
  /\ op.name = "elog_message_safe"
  /\ invoked # <<>>
  /\ \E i \in Slots : i >= s_num_subscribers
                        /\ s_subscribers[i].threshold = LOG_LEVEL_ALWAYS

(***************************************************************************)
(* The mutex wrapper and the creation of s_log_mutex.                      *)
(***************************************************************************)

\* The last call was a direct call of wrapper function name on s_log_mutex.
OnLogMutex(name) == op.name = name /\ op.mutex = LogMutex

\* Another thread owned s_log_mutex when the last call started.
OwnedByAnother == before.owner \notin {NULL, op.thread}

\* C21: RTOS_READY is false at program start and only
\* elog_update_RTOS_ready changes it; while it is false, elogMutexTake on
\* s_log_mutex returns ELOG_THREAD_OK and leaves the owner of the mutex as
\* it was, whoever owns it.
C21_TakeBypassedUntilReady ==
  /\ op.name = "start" => ~RTOS_READY
  /\ [][/\ RTOS_READY' # RTOS_READY => op'.name = "elog_update_RTOS_ready"
        /\ OnLogMutex("elogMutexTake")' /\ ~RTOS_READY
             => /\ op'.take = Took(ELOG_THREAD_OK)
                /\ mutex_owner' = mutex_owner]_vars

\* C21 witness: a take made before the scheduler is ready, while another
\* thread owns the mutex, returned ELOG_THREAD_OK.
C21_Witness ==
  /\ OnLogMutex("elogMutexTake")
  /\ ~RTOS_READY
  /\ OwnedByAnother
  /\ op.take = Took(ELOG_THREAD_OK)
  /\ mutex_owner = before.owner

C23_CreateAtMostOnce ==
  [][~ /\ op.name = "elog_init" /\ op.create = 1
       /\ op'.name = "elog_init" /\ op'.create = 1]_vars

\* C23: elog_init calls elogMutexCreate exactly when s_mutex_initialized is
\* 0, so never again after a creation succeeded, and no call clears
\* s_mutex_initialized once it is set.
C23_CreateUntilInitialized ==
  /\ op.create = 1 <=> op.name = "elog_init" /\ before.initialized = 0
  /\ before.initialized = 1 => s_mutex_initialized = 1

\* C23 witness: an elog_init found the mutex created and did not call
\* elogMutexCreate.
C23_Witness ==
  /\ op.name = "elog_init"
  /\ before.initialized = 1
  /\ op.create = 0
  /\ s_mutex_initialized = 1

(***************************************************************************)
(* The per-file threshold table.                                           *)
(***************************************************************************)

\* The last call was elog_set_file_threshold / elog_get_file_threshold.
IsSet == op.name = "elog_set_file_threshold"
IsGet == op.name = "elog_get_file_threshold"

\* The levels of the successful elog_set_file_threshold calls last made for
\* name, according to done: one level, or none.
LastSet(done, name) == {x.level : x \in {y \in done : y.name = name}}

\* C25 as stated: elog_set_file_threshold with a null name or with the empty
\* name returns LOG_ERR_INVALID_LEVEL and leaves the table as it was.
C25_NullOrEmptyNameRejected ==
  IsSet /\ op.file \in {NullString, EmptyName}
    => /\ op.ret = LOG_ERR_INVALID_LEVEL
       /\ fileLogLevels = before.files

\* C25: elog_set_file_threshold with a null name returns
\* LOG_ERR_INVALID_LEVEL and leaves the table as it was; the empty name is
\* a name like any other: it is stored or overwritten with
\* LOG_ERR_NONE, or refused by a full table with
\* LOG_ERR_SUBSCRIBERS_EXCEEDED.
C25_NullNameRejected ==
  /\ IsSet /\ op.file = NullString
       => /\ op.ret = LOG_ERR_INVALID_LEVEL
          /\ fileLogLevels = before.files
  /\ IsSet /\ op.file = EmptyName
       => \/ /\ op.ret = LOG_ERR_NONE
             /\ EntriesNamed(fileLogLevels, EmptyName) # {}
             /\ Override(fileLogLevels, EmptyName) = op.level
          \/ /\ op.ret = LOG_ERR_SUBSCRIBERS_EXCEEDED
             /\ EntriesNamed(before.files, EmptyName) = {}
             /\ Len(before.files) = MAX_FILE_LOG_LEVELS
             /\ fileLogLevels = before.files

\* C25 witness: a null name refused while the table holds entries.
C25_Witness ==
  /\ IsSet
  /\ op.file = NullString
  /\ op.ret = LOG_ERR_INVALID_LEVEL
  /\ before.files # <<>>
  /\ fileLogLevels = before.files

\* C26 as stated: elog_set_file_threshold for a name it accepted before adds
\* no entry, and changes the threshold of no other name.
C26_RepeatedSetAddsNothing ==
  IsSet /\ LastSet(before.settings, op.file) # {}
    => /\ Len(fileLogLevels) = Len(before.files)
       /\ \A name \in FileNames \ {op.file} :
            GetFileThreshold(fileLogLevels, name)
              = GetFileThreshold(before.files, name)

\* C27 as stated: elog_get_file_threshold returns the level of the last
\* successful elog_set_file_threshold made for the same name.
C27_RoundTrip ==
  IsGet => \A level \in LastSet(settings, op.file) : op.ret = level

\* C28 as stated: elog_get_file_threshold leaves the table as it was, and
\* returns LOG_AUTO_THRESHOLD for a null name and for a name no successful
\* elog_set_file_threshold was made for.
C28_GetDefaultsToAuto ==
  IsGet
    => /\ fileLogLevels = before.files
       /\ op.file = NullString \/ LastSet(settings, op.file) = {}
            => op.ret = LOG_AUTO_THRESHOLD

\* C29: with MAX_FILE_LOG_LEVELS entries in the table,
\* elog_set_file_threshold for a name no entry holds returns
\* LOG_ERR_SUBSCRIBERS_EXCEEDED and changes nothing, and for a name an entry
\* holds it returns LOG_ERR_NONE, adds no entry and makes the level the
\* threshold of that name.
C29_FullTable ==
  IsSet /\ op.file # NullString /\ Len(before.files) = MAX_FILE_LOG_LEVELS
    => IF EntriesNamed(before.files, op.file) = {}
       THEN /\ op.ret = LOG_ERR_SUBSCRIBERS_EXCEEDED
            /\ fileLogLevels = before.files
       ELSE /\ op.ret = LOG_ERR_NONE
            /\ Len(fileLogLevels) = MAX_FILE_LOG_LEVELS
            /\ \A k \in DOMAIN before.files :
                 fileLogLevels[k].filename = before.files[k].filename
            /\ Override(fileLogLevels, op.file) = op.level

\* C29 witness: a full table took a new threshold for a name it holds.
C29_Witness ==
  /\ IsSet
  /\ Len(before.files) = MAX_FILE_LOG_LEVELS
  /\ EntriesNamed(before.files, op.file) # {}
  /\ op.ret = LOG_ERR_NONE
  /\ Override(before.files, op.file) # op.level
  /\ Override(fileLogLevels, op.file) = op.level

(***************************************************************************)
(* The automatic threshold.                                                *)
(***************************************************************************)

\* The severity each debug flag enables.
SeverityOf ==
  [f \in Flags |->
     CASE f = "DEBUG_TRACE"    -> LOG_LEVEL_TRACE
       [] f = "DEBUG_LOG"      -> LOG_LEVEL_DEBUG
       [] f = "DEBUG_INFO"     -> LOG_LEVEL_INFO
       [] f = "DEBUG_WARN"     -> LOG_LEVEL_WARNING
       [] f = "DEBUG_ERR"      -> LOG_LEVEL_ERROR
       [] f = "DEBUG_CRITICAL" -> LOG_LEVEL_CRITICAL
       [] f = "DEBUG_ALWAYS"   -> LOG_LEVEL_ALWAYS]

\* The severities the build enables.
EnabledSeverities == {SeverityOf[f] : f \in {g \in Flags : config[g]}}

\* C30: in every build elog_get_auto_threshold returns the lowest severity
\* whose flag is YES, and LOG_LEVEL_ALWAYS when no flag is YES.
C30_AutoThresholdIsLowestEnabled ==
  op.name = "elog_get_auto_threshold"
    => op.ret = IF EnabledSeverities = {} THEN LOG_LEVEL_ALWAYS
                ELSE Min(EnabledSeverities)

\* C30 witness: a build with DEBUG_TRACE and DEBUG_LOG off and DEBUG_INFO
\* off, DEBUG_WARN and DEBUG_CRITICAL on: the call returned
\* LOG_LEVEL_WARNING.
C30_Witness ==
  /\ op.name = "elog_get_auto_threshold"
  /\ EnabledSeverities = {LOG_LEVEL_WARNING, LOG_LEVEL_CRITICAL}
  /\ op.ret = LOG_LEVEL_WARNING

(***************************************************************************)
(* Termination of the *_safe functions.                                    *)
(***************************************************************************)

\* C24: a thread that is inside elog_message_safe,
\* elog_message_with_location_safe, elog_subscribe_safe or
\* elog_unsubscribe_safe is eventually back in its caller, whatever the
\* other thread does, and also when the other thread keeps s_log_mutex.
C24_SafeCallsReturn ==
  \A t \in LiveThreads : (pc[t] # "idle") ~> (pc[t] = "idle")

\* C24 witness: a thread is at its elogMutexTake with the scheduler ready
\* while the other thread owns s_log_mutex and is idle, so will not release
\* it by itself.
C24_Witness ==
  \E t \in LiveThreads :
    /\ pc[t] = "take"
    /\ RTOS_READY
    /\ mutex_owner \in LiveThreads \ {t}
    /\ pc[mutex_owner] = "idle"

(***************************************************************************)
(* Formatting.                                                             *)
(***************************************************************************)

\* The bytes a string takes in a buffer: its characters and the terminator.
Bytes(str) == Len(str) + 1

\* str in brackets.
Bracket(str) == <<"[">> \o str \o <<"]">>

\* s is the first Len(s) characters of str.
IsPrefix(s, str) ==
  /\ Len(s) <= Len(str)
  /\ \A i \in 1 .. Len(s) : s[i] = str[i]

\* C31: after elog_message with a message whose rendering has n
\* characters, the string in s_message_buffer, which is what the
\* subscribers get, has min(n, LOG_MAX_MESSAGE_LENGTH - 1) characters, is
\* a prefix of the rendering, and with its terminator fits the buffer.
C31_MessageTruncated ==
  op.name = "elog_message"
    => /\ Len(s_message_buffer)
            = Min({Len(op.text), LOG_MAX_MESSAGE_LENGTH - 1})
       /\ IsPrefix(s_message_buffer, op.text)
       /\ Bytes(s_message_buffer) <= LOG_MAX_MESSAGE_LENGTH

\* C31 witness: a rendering longer than the buffer was delivered to a
\* subscriber cut to LOG_MAX_MESSAGE_LENGTH - 1 characters.
C31_Witness ==
  /\ op.name = "elog_message"
  /\ Len(op.text) > LOG_MAX_MESSAGE_LENGTH
  /\ invoked # <<>>
  /\ Len(s_message_buffer) = LOG_MAX_MESSAGE_LENGTH - 1

\* C33: elog_message_with_location looks up the threshold of the basename
\* of its file argument; a message below it leaves the buffer alone and
\* reaches nobody; otherwise the buffer holds "[file][func][line] " and
\* the first LOG_MAX_MESSAGE_LENGTH - 64 - 1 characters of the user
\* message, the whole cut to LOG_MAX_MESSAGE_LENGTH - 1 characters.
C33_LocationTextTruncated ==
  op.name = "elog_message_with_location"
    => IF op.level < Override(before.files, BaseName(op.file))
       THEN s_message_buffer = before.buffer /\ invoked = <<>>
       ELSE LET user == Prefix(op.text, LOG_MAX_MESSAGE_LENGTH - 64 - 1)
                full == Bracket(op.file) \o Bracket(LocationFunc)
                          \o Bracket(Decimal(LocationLine)) \o <<" ">>
                          \o user
            IN /\ s_message_buffer = Prefix(full, LOG_MAX_MESSAGE_LENGTH - 1)
               /\ Bytes(s_message_buffer) <= LOG_MAX_MESSAGE_LENGTH

\* C33 witness: a located message passed the gate with a user message
\* longer than temp_buffer and a path that leaves no room for all of what
\* temp_buffer kept: both truncations acted.
C33_Witness ==
  /\ op.name = "elog_message_with_location"
  /\ op.level >= Override(before.files, BaseName(op.file))
  /\ invoked # <<>>
  /\ Len(op.text) > LOG_MAX_MESSAGE_LENGTH - 64
  /\ Len(op.file) < LOG_MAX_MESSAGE_LENGTH - 64 + 3
  /\ Len(op.file) > 64
  /\ Len(s_message_buffer) = LOG_MAX_MESSAGE_LENGTH - 1

(***************************************************************************)
(* Names of the severities.                                                *)
(***************************************************************************)

\* The names of the seven severities, from LOG_LEVEL_TRACE up.
SeverityNames ==
  <<<<"T", "R", "A", "C", "E">>, <<"D", "E", "B", "U", "G">>,
    <<"I", "N", "F", "O">>, <<"W", "A", "R", "N", "I", "N", "G">>,
    <<"E", "R", "R", "O", "R">>, <<"C", "R", "I", "T", "I", "C", "A", "L">>,
    <<"A", "L", "W", "A", "Y", "S">>>>

Unknown == <<"U", "N", "K", "N", "O", "W", "N">>

\* C32: elog_level_name returns TRACE, DEBUG, INFO, WARNING, ERROR,
\* CRITICAL, ALWAYS for the seven severities in ascending order, seven
\* different names none of which is UNKNOWN, and UNKNOWN for every other
\* int.
C32_LevelNames ==
  /\ Cardinality({SeverityNames[k] : k \in 1 .. 7} \cup {Unknown}) = 8
  /\ op.name = "elog_level_name"
       => op.text = IF op.level \in Levels
                    THEN SeverityNames[op.level - LOG_LEVEL_TRACE + 1]
                    ELSE Unknown

\* C32 witness: the value just above LOG_LEVEL_ALWAYS was named UNKNOWN.
C32_Witness ==
  /\ op.name = "elog_level_name"
  /\ op.level = LOG_LEVEL_ALWAYS + 1
  /\ op.text = Unknown

(***************************************************************************)
(* Bounds of the subscriber table.                                         *)
(***************************************************************************)

\* C34: with the calls made one at a time, s_num_subscribers stays within
\* 0 .. LOG_MAX_SUBSCRIBERS, every active entry lies below
\* s_num_subscribers, and a subscribe that adds an entry writes it at the
\* old count, which is an index of the array.
C34_CountAndIndexInBounds ==
  /\ s_num_subscribers \in 0 .. LOG_MAX_SUBSCRIBERS
  /\ \A i \in Slots : s_subscribers[i].active # 0 => i < s_num_subscribers
  /\ IsSubscribe /\ s_num_subscribers # pre.num
       => /\ pre.num \in Slots
          /\ s_num_subscribers = pre.num + 1
          /\ s_subscribers[pre.num].active # 0

\* C34 witness: a subscribe filled the last slot of the array.
C34_Witness ==
  /\ IsSubscribe
  /\ pre.num = LOG_MAX_SUBSCRIBERS - 1
  /\ s_num_subscribers = LOG_MAX_SUBSCRIBERS
  /\ s_subscribers[LOG_MAX_SUBSCRIBERS - 1].active # 0

(***************************************************************************)
(* Threads in elog_subscribe_safe.                                         *)
(***************************************************************************)

\* Thread t is in elog_subscribe_safe at position at.
Subscribing(t, at) ==
  pc[t] = at /\ frame[t].func = "elog_subscribe_safe"

\* C35 as stated: whatever the threads in elog_subscribe_safe do,
\* s_num_subscribers never exceeds LOG_MAX_SUBSCRIBERS, a thread about to
\* write a new entry writes it inside the array, and the entry a thread
\* wrote is still its own when it goes on to increment the count.
C35_ConcurrentSubscribeInBounds ==
  /\ s_num_subscribers <= LOG_MAX_SUBSCRIBERS
  /\ \A t \in Threads :
       Subscribing(t, "append") => s_num_subscribers \in Slots
  /\ \A t \in Threads :
       Subscribing(t, "count") /\ s_num_subscribers \in Slots
         => s_subscribers[s_num_subscribers].fn = frame[t].fn

(***************************************************************************)
(* Balance of take and give.                                               *)
(***************************************************************************)

\* C36 as stated: a thread that is not inside a *_safe function does not
\* own s_log_mutex, and a thread that is about to call elogMutexGive with
\* the scheduler ready, so that tx_mutex_put will be called, owns it.
C36_LockBalanced ==
  \A t \in Threads :
    /\ pc[t] = "idle" => mutex_owner # t
    /\ pc[t] = "give" /\ RTOS_READY => mutex_owner = t

(***************************************************************************)
(* Null callbacks.                                                         *)
(***************************************************************************)

\* C37 as stated: no active entry holds a null callback, and no dispatch
\* calls through a null pointer, whatever callbacks were passed to
\* subscribe and unsubscribe.
C37_NoNullCallbackActive ==
  /\ \A i \in Used(Now) :
       s_subscribers[i].active # 0 => s_subscribers[i].fn # NULL
  /\ \A k \in DOMAIN invoked : invoked[k].fn # NULL

(***************************************************************************)
(* Dispatch under the mutex.                                               *)
(***************************************************************************)

\* Thread t is in the dispatch loop of a message function or past it.
Dispatching(t) ==
  /\ pc[t] \in {"dispatch", "give"}
  /\ frame[t].func \in {"elog_message_safe",
                         "elog_message_with_location_safe"}

\* The callbacks a dispatch at severity level invokes in the first n slots
\* of the table as it is now, in order.
DeliveredUpTo(n, level) ==
  LET due(i) == /\ i < s_num_subscribers
                /\ s_subscribers[i].active # 0
                /\ s_subscribers[i].threshold <= level
      slots  == SelectSeq([k \in 1 .. n |-> k - 1], due)
  IN [k \in 1 .. Len(slots) |-> s_subscribers[slots[k]].fn]

\* C38: with the mutex created and the scheduler ready, a thread in the
\* body of a *_safe function owns the mutex, and what a dispatch has
\* invoked so far is what the table as it is now gives for the slots the
\* loop has passed: no entry changed under the loop, so every callback it
\* invoked is still subscribed and none it skipped was unsubscribed
\* before the loop reached it.
C38_DispatchSeesOneTable ==
  \A t \in Threads :
    /\ pc[t] \notin {"idle", "take"} => mutex_owner = t
    /\ Dispatching(t)
         => /\ frame[t].inv = DeliveredUpTo(frame[t].i, frame[t].level)
            /\ \A k \in DOMAIN frame[t].inv :
                 ActiveFor(Now, frame[t].inv[k]) # {}

\* C38 witness: a dispatch has invoked a callback, and the other thread is
\* at the elogMutexTake of elog_unsubscribe_safe for that callback.
C38_Witness ==
  \E t \in Threads, u \in Threads :
    /\ Dispatching(t)
    /\ pc[t] = "dispatch"
    /\ frame[t].inv # <<>>
    /\ pc[u] = "take"
    /\ frame[u].func = "elog_unsubscribe_safe"
    /\ \E k \in DOMAIN frame[t].inv : frame[t].inv[k] = frame[u].fn

\* C39 as stated: elog_set_file_threshold(n1, L) leaves the value of
\* elog_get_file_threshold(n2) as it was for every name n2 other than n1,
\* names sharing their first FILENAME_SIZE - 1 characters with n1 included.
C39_SetLeavesOtherNamesAlone ==
  IsSet
    => \A n2 \in FileNames \ {op.file, NullString} :
         GetFileThreshold(fileLogLevels, n2)
           = GetFileThreshold(before.files, n2)

====
